---- MODULE Spec2Model ----
(***************************************************************************)
(* Model of the university-data pipeline: the cleaner preprocess_data and  *)
(* the validator validate_data of src/src/data_processor.py, the           *)
(* aggregations of src/src/analysis.py, and the run of src/main.py.        *)
(*                                                                         *)
(* A table (pandas DataFrame) is column oriented: a function from column   *)
(* names to sequences of cells, all of one length.  A cell is NA (<<>>) or *)
(* <<v>>.  Numeric cells are fixed point and hold eighths (GPA 3.5 is 28,  *)
(* a counter 5 is 40), so that the median of two raw values is exact: raw  *)
(* GPAs are multiples of a quarter, raw counters are whole numbers.  Dates *)
(* are day numbers relative to the day the table was loaded (day 0).       *)
(* Tables live in a heap and are handled by reference, as Python does.     *)
(***************************************************************************)
EXTENDS Integers, Sequences, FiniteSets, TLC

VARIABLES
    heap,          \* the table objects: reference -> table
    df,            \* the caller's reference to the loaded table
    processed_df,  \* <<the reference preprocess_data returned>>, NA before
    problems,      \* the list validate_data returned
    target,        \* which table validate_data was given: "raw", "processed"
    pc,            \* "loaded", "processed", "raised", "validated", "analysed"
                   \* ("analysed without": on a table without some column)
    clock,         \* the current day
    processed_at,  \* <<today>> as preprocess_data read it
    validated_at,  \* <<today>> as validate_data read it
    call,          \* the aggregation called last and its arguments
    result,        \* what that call raised or returned
    args,          \* the command line of main: data, output, report
    fs,            \* the file system: the input file, the files written
    position,      \* the statement of main's try block to run next
    analyses,      \* main's dict of chart analyses, in insertion order
    stdout,        \* what main has printed
    exit_code,     \* <<the exit code>> of the run of main, NA while it runs
    executed       \* history: the statements main has run, with outcome

main_vars == <<args, fs, position, analyses, stdout, exit_code, executed>>

vars == <<heap, df, processed_df, problems, target, pc, clock, processed_at,
          validated_at, call, result, args, fs, position, analyses, stdout,
          exit_code, executed>>

(***************************************************************************)
(* Bounds of the model.                                                    *)
(***************************************************************************)
MaxRows == 3
MaxDrift == 1
MaxTop == 3

(***************************************************************************)
(* Cells and series.                                                       *)
(***************************************************************************)
NA == <<>>

isna(cell) == cell = NA

notna(s) == {i \in DOMAIN s : ~isna(s[i])}

any_isna(s) == \E i \in DOMAIN s : isna(s[i])

\* s < c, s > c elementwise: a comparison with a missing value is False.
lt(cell, c) == ~isna(cell) /\ cell[1] < c

gt(cell, c) == ~isna(cell) /\ cell[1] > c

\* (mask).sum(): the number of rows where the boolean series is True.
sum(mask) == Cardinality({i \in DOMAIN mask : mask[i]})

\* The k-th smallest of the non-missing values of s (k from 1).
kth(s, k) ==
    LET vals == {s[i][1] : i \in notna(s)}
    IN CHOOSE v \in vals :
          /\ Cardinality({i \in notna(s) : s[i][1] < v}) < k
          /\ Cardinality({i \in notna(s) : s[i][1] <= v}) >= k

\* Variant of median: the lower of the two middle values on an even count.
median_low(s) ==
    LET n == Cardinality(notna(s))
    IN IF n = 0 THEN NA ELSE <<kth(s, (n + 1) \div 2)>>

\* Series.median(): skips missing values; the middle value, or the mean of
\* the two middle values; NaN when there is no value.
median(s) ==
    LET n == Cardinality(notna(s))
    IN IF n = 0 THEN NA
       ELSE IF n % 2 = 1 THEN <<kth(s, (n + 1) \div 2)>>
       ELSE <<(kth(s, n \div 2) + kth(s, n \div 2 + 1)) \div 2>>

fillna(s, value) == [i \in DOMAIN s |-> IF isna(s[i]) THEN value ELSE s[i]]

\* One whole unit in eighths; the truncation of a C cast, toward zero.
trunc(x) == IF x >= 0 THEN (x \div 8) * 8 ELSE -(((-x) \div 8) * 8)

\* astype(int): raises on a missing value, else truncates each value.
astype_int_raises(s) == any_isna(s)

astype_int(s) == [i \in DOMAIN s |-> <<trunc(s[i][1])>>]

\* astype(float): every value is kept, a missing value stays missing.
astype_float(s) == [i \in DOMAIN s |-> IF isna(s[i]) THEN NA ELSE <<s[i][1]>>]

\* astype(str): str() of each object; a missing value becomes the text 'nan'.
astype_str(s) == [i \in DOMAIN s |-> IF isna(s[i]) THEN <<"nan">> ELSE s[i]]

\* astype(bool): truth value of each object; NaN is truthy.
astype_bool(s) == [i \in DOMAIN s |-> IF isna(s[i]) THEN <<TRUE>> ELSE s[i]]

\* (today - dates).dt.days: whole days, NaN for a missing date.
dt_days(t, dates) ==
    [i \in DOMAIN dates |-> IF isna(dates[i]) THEN NA ELSE <<t - dates[i][1]>>]

\* Variant of floordiv365: int(days / 365), rounding toward zero.
truncdiv365(s) ==
    [i \in DOMAIN s |->
        IF isna(s[i]) THEN NA
        ELSE IF s[i][1] >= 0 THEN <<s[i][1] \div 365>> ELSE <<-((-s[i][1]) \div 365)>>]

\* days // 365: floor division.
floordiv365(s) ==
    [i \in DOMAIN s |-> IF isna(s[i]) THEN NA ELSE <<s[i][1] \div 365>>]

\* days / 365: true division, kept as the fraction num/den.
truediv365(s) ==
    [i \in DOMAIN s |->
        IF isna(s[i]) THEN NA ELSE <<[num |-> s[i][1], den |-> 365]>>]

\* Variant of clamp_below: the lower correction left out.
clamp_below_missing(s, bound) == s

\* df.loc[mask, col] = value
clamp_below(s, bound) == [i \in DOMAIN s |-> IF lt(s[i], bound) THEN <<bound>> ELSE s[i]]

\* Variant of clamp_above: the upper correction left out.
clamp_above_missing(s, bound) == s

\* df.loc[mask, col] = value
clamp_above(s, bound) == [i \in DOMAIN s |-> IF gt(s[i], bound) THEN <<bound>> ELSE s[i]]

\* bins=[0, 2.0, 3.0, 3.5, 4.0, 5.0] in eighths, and their labels.
bins == <<0, 16, 24, 28, 32, 40>>

labels == <<"Muy bajo", "Bajo", "Medio", "Alto", "Excelente">>

\* pd.cut(x, bins, labels) with its defaults right=True, include_lowest=False:
\* bin k is (bins[k], bins[k+1]]; a value in no bin, or missing, gives NaN.
cut_cell(cell) ==
    IF isna(cell) THEN NA
    ELSE LET hit == {k \in 1..Len(labels) : bins[k] < cell[1] /\ cell[1] <= bins[k + 1]}
         IN IF hit = {} THEN NA ELSE <<labels[CHOOSE k \in hit : TRUE]>>

cut(s) == [i \in DOMAIN s |-> cut_cell(s[i])]

(***************************************************************************)
(* preprocess_data                                                         *)
(***************************************************************************)
numeric_cols ==
    <<"current_semester", "Number_of_credits_approved", "credits_remaining",
      "GPA", "course_load", "library_books_borrowed">>

categorical_cols ==
    <<"gender", "nationality", "program", "state_program",
      "student_status", "payment_status", "academic_standing">>

Range(seq) == {seq[i] : i \in DOMAIN seq}

\* Variant of copy: processed_df = df, the same object under a second name.
copy_alias(h, ref) == [heap |-> h, ref |-> ref]

\* df.copy(): a new table object holding the same cells.
copy(h, ref) ==
    LET new == Cardinality(DOMAIN h) + 1
    IN [heap |-> h @@ (new :> h[ref]), ref |-> new]

\* if col.isna().any(): col = col.fillna(col.median())
impute_numeric(s) == IF any_isna(s) THEN fillna(s, median(s)) ELSE s

\* Variant of impute_categorical: isna().all() for isna().any().
impute_categorical_all(s) ==
    IF \A i \in DOMAIN s : isna(s[i]) THEN fillna(s, <<"Unknown">>) ELSE s

\* if col.isna().any(): col = col.fillna('Unknown')
impute_categorical(s) == IF any_isna(s) THEN fillna(s, <<"Unknown">>) ELSE s

\* Variant of fill_missing: dropna() on the numeric columns for fillna().
fill_missing_dropna(t) ==
    LET keep == {i \in DOMAIN t["GPA"] :
                    \A c \in Range(numeric_cols) : ~isna(t[c][i])}
        RECURSIVE pick(_, _)
        pick(s, i) ==
            IF i > Len(s) THEN <<>>
            ELSE IF i \in keep THEN <<s[i]>> \o pick(s, i + 1) ELSE pick(s, i + 1)
    IN [c \in DOMAIN t |->
          IF c \in Range(categorical_cols) THEN impute_categorical(pick(t[c], 1))
          ELSE pick(t[c], 1)]

\* The two loops over numeric_cols and categorical_cols.
fill_missing(t) ==
    [c \in DOMAIN t |->
        IF c \in Range(numeric_cols) THEN impute_numeric(t[c])
        ELSE IF c \in Range(categorical_cols) THEN impute_categorical(t[c])
        ELSE t[c]]

\* student_id to str, GPA to float.
cast_id_gpa(t) ==
    [t EXCEPT !["student_id"] = astype_str(@), !["GPA"] = astype_float(@)]

set_col(t, c, s) == [d \in DOMAIN t \cup {c} |-> IF d = c THEN s ELSE t[d]]

\* Variant of clamp_ranges: every counter that should be non-negative is
\* corrected, not credits_remaining alone.
clamp_ranges_all(t) ==
    [c \in DOMAIN t |->
        IF c = "GPA" THEN clamp_above(clamp_below(t[c], 0), 40)
        ELSE IF c \in {"current_semester", "Number_of_credits_approved",
                       "credits_remaining", "course_load", "library_books_borrowed"}
             THEN clamp_below(t[c], 0)
        ELSE t[c]]

\* The GPA and credits_remaining corrections.
clamp_ranges(t) ==
    [t EXCEPT !["GPA"] = clamp_above(clamp_below(@, 0), 40),
              !["credits_remaining"] = clamp_below(@, 0)]

\* The statements after the integer casts: scholarship to bool, the derived
\* age and years_enrolled, the range corrections, the performance category.
derive(t, now) ==
    LET t1 == [t EXCEPT !["scholarship"] = astype_bool(@)]
        t2 == set_col(t1, "age", floordiv365(dt_days(now, t1["date_of_birth"])))
        t3 == set_col(t2, "years_enrolled", truediv365(dt_days(now, t2["enrollment_date"])))
        t4 == clamp_ranges(t3)
    IN set_col(t4, "performance_category", cut(t4["GPA"]))

\* The body of preprocess_data on the working table t.  The three integer
\* casts run in order and the first one that meets a missing value raises
\* (the column had no value at all, so no median filled it); the table is
\* then as the statements before the failing cast left it.
preprocess_body(t, now) ==
    LET t1 == cast_id_gpa(fill_missing(t))
        c1 == "current_semester"
        c2 == "Number_of_credits_approved"
        c3 == "credits_remaining"
        t2 == [t1 EXCEPT ![c1] = astype_int(@)]
        t3 == [t2 EXCEPT ![c2] = astype_int(@)]
        t4 == [t3 EXCEPT ![c3] = astype_int(@)]
    IN IF astype_int_raises(t1[c1]) THEN [table |-> t1, raised |-> TRUE]
       ELSE IF astype_int_raises(t2[c2]) THEN [table |-> t2, raised |-> TRUE]
       ELSE IF astype_int_raises(t3[c3]) THEN [table |-> t3, raised |-> TRUE]
       ELSE [table |-> derive(t4, now), raised |-> FALSE]

\* preprocess_data(df) called on the table object ref at time now: the heap
\* after the call, the returned reference (none when it raised).
preprocess_data(h, ref, now) ==
    LET c == copy(h, ref)
        r == preprocess_body(c.heap[c.ref], now)
        h2 == [c.heap EXCEPT ![c.ref] = r.table]
    IN IF r.raised
       THEN [heap |-> [o \in {ref} |-> h2[o]], ret |-> NA, raised |-> TRUE]
       ELSE [heap |-> h2, ret |-> <<c.ref>>, raised |-> FALSE]

(***************************************************************************)
(* validate_data                                                           *)
(***************************************************************************)
nonnegative_cols ==
    <<"current_semester", "Number_of_credits_approved", "credits_remaining",
      "course_load", "library_books_borrowed">>

\* df[col] < 0
is_negative(s) == [i \in DOMAIN s |-> lt(s[i], 0)]

\* Variant of gpa_out: only the upper end of the range is looked at.
gpa_out_upper(s) == [i \in DOMAIN s |-> gt(s[i], 40)]

\* (GPA < 0) | (GPA > 5)
gpa_out(s) == [i \in DOMAIN s |-> lt(s[i], 0) \/ gt(s[i], 40)]

\* ages = days / 365; ages < 15, ages > 80 on the fraction num/den.
is_young(ages) ==
    [i \in DOMAIN ages |-> ~isna(ages[i]) /\ ages[i][1].num < 15 * ages[i][1].den]

is_old(ages) ==
    [i \in DOMAIN ages |-> ~isna(ages[i]) /\ ages[i][1].num > 80 * ages[i][1].den]

\* df['enrollment_date'] > today
is_future(dates, now) == [i \in DOMAIN dates |-> gt(dates[i], now)]

\* A problem string f"{count} {text} '{col}'": its count, its fixed text
\* (accents dropped) and the column name it embeds, if any.
message(n, text, col) == [count |-> n, text |-> text, col |-> col]

\* problems.append(...) if count > 0
append_if(lst, n, text, col) ==
    IF n > 0 THEN Append(lst, message(n, text, col)) ELSE lst

\* The loop over the columns that should be non-negative, from column k on.
RECURSIVE negative_checks(_, _, _)
negative_checks(t, lst, k) ==
    IF k > Len(nonnegative_cols) THEN lst
    ELSE LET col == nonnegative_cols[k]
         IN negative_checks(t,
                append_if(lst, sum(is_negative(t[col])),
                          "valores negativos encontrados en la columna", col),
                k + 1)

validate_data(t, now) ==
    LET p1 == negative_checks(t, <<>>, 1)
        p2 == append_if(p1, sum(gpa_out(t["GPA"])),
                        "valores de GPA estan fuera del rango 0-5", "")
        ages == truediv365(dt_days(now, t["date_of_birth"]))
        young == sum(is_young(ages))
        old == sum(is_old(ages))
        p3 == append_if(p2, young, "estudiantes tienen menos de 15 anos", "")
        p4 == append_if(p3, old, "estudiantes tienen mas de 80 anos", "")
        future_enrollments == sum(is_future(t["enrollment_date"], now))
    IN append_if(p4, future_enrollments, "fechas de matricula estan en el futuro", "")

(***************************************************************************)
(* analysis.py                                                             *)
(*                                                                         *)
(* A result table is a sequence of rows in the order of the result's       *)
(* index, each row a record with the index label under "key" and one       *)
(* field per result column.  A mean, a median, a quantile and a percentage *)
(* are kept as the fraction num/den; a standard deviation is kept as the   *)
(* fraction of its square, the variance.                                   *)
(***************************************************************************)
\* A call ends in an exception or in a returned value.
raise(exception) == [raised |-> exception, value |-> NA]

returns(value) == [raised |-> "none", value |-> <<value>>]

frac(n, d) == [num |-> n, den |-> d]

\* a < b for two fractions with positive denominators.
frac_lt(a, b) == a.num * b.den < b.num * a.den

\* The cells of s that belong to the rows of one group; the others masked.
cells(s, rows) == [i \in DOMAIN s |-> IF i \in rows THEN s[i] ELSE NA]

RECURSIVE series_sum(_, _)
series_sum(s, rows) ==
    IF rows = {} THEN 0
    ELSE LET i == CHOOSE j \in rows : TRUE
         IN s[i][1] + series_sum(s, rows \ {i})

squares(s) == [i \in DOMAIN s |-> IF isna(s[i]) THEN NA ELSE <<s[i][1] * s[i][1]>>]

\* The aggregations 'count', 'mean', 'median', 'min', 'max', 'std' of a
\* group: each skips missing values, and all but 'count' give NaN when no
\* value is left ('std', with ddof=1, when fewer than two are left).
agg_count(s) == Cardinality(notna(s))

agg_mean(s) ==
    IF agg_count(s) = 0 THEN NA
    ELSE <<frac(series_sum(s, notna(s)), agg_count(s))>>

agg_median(s) ==
    LET n == agg_count(s)
    IN IF n = 0 THEN NA
       ELSE IF n % 2 = 1 THEN <<frac(kth(s, (n + 1) \div 2), 1)>>
       ELSE <<frac(kth(s, n \div 2) + kth(s, n \div 2 + 1), 2)>>

agg_min(s) == IF agg_count(s) = 0 THEN NA ELSE <<kth(s, 1)>>

agg_max(s) == IF agg_count(s) = 0 THEN NA ELSE <<kth(s, agg_count(s))>>

agg_std(s) ==
    LET n == agg_count(s)
        sx == series_sum(s, notna(s))
        sxx == series_sum(squares(s), notna(s))
    IN IF n < 2 THEN NA ELSE <<frac(n * sxx - sx * sx, n * (n - 1))>>

\* lambda x: x.sum() on a boolean group: the number of True values.
sum_true(s) == Cardinality({i \in notna(s) : s[i][1] = TRUE})

\* Variant of percentage: x.mean() without the factor 100.
percentage_as_ratio(s) ==
    IF agg_count(s) = 0 THEN NA ELSE <<frac(sum_true(s), agg_count(s))>>

\* lambda x: x.mean() * 100 on a boolean group.
percentage(s) ==
    IF agg_count(s) = 0 THEN NA ELSE <<frac(100 * sum_true(s), agg_count(s))>>

\* The distinct non-missing values of s in the order of their first
\* appearance.
unique(s) ==
    LET first == {i \in notna(s) : \A j \in 1..(i - 1) : s[j] # s[i]}
    IN [p \in 1..Cardinality(first) |->
          s[CHOOSE i \in first : Cardinality({j \in first : j < i}) = p - 1][1]]

\* The texts that occur as group keys, in lexicographic order.
Alphabet ==
    <<"Active", "Average", "Biology", "Computer Science", "Excellent",
      "Female", "Inactive", "Male", "Married", "Mathematics", "Single",
      "Unknown">>

\* The place of a key of column by in sorted order: a number by its value,
\* a text by its place in the alphabet.
ord(by, key) ==
    IF by \in Range(numeric_cols) THEN key
    ELSE CHOOSE k \in DOMAIN Alphabet : Alphabet[k] = key

\* Variant of groupby_keys: sort=False, the keys in the order of their
\* first appearance.
groupby_keys_unsorted(t, by) == unique(t[by])

\* df.groupby(by) with its defaults sort=True, dropna=True: the distinct
\* non-missing values of the column, in sorted order.
groupby_keys(t, by) ==
    LET keys == {t[by][i][1] : i \in notna(t[by])}
    IN [p \in 1..Cardinality(keys) |->
          CHOOSE k \in keys :
              Cardinality({j \in keys : ord(by, j) < ord(by, k)}) = p - 1]

\* The rows of the group of one key.
group_rows(t, by, key) == {i \in DOMAIN t[by] : t[by][i] = <<key>>}

\* The indexer of a descending sort (ascending=False, na_position='last')
\* of a sequence of cells holding fractions.  The default kind, quicksort,
\* fixes no order among equal values: ties says whether the sort of the
\* build leaves them as they came ("kept") or turns them round ("reversed").
nargsort(keys, ties) ==
    LET val == notna(keys)
        nan == DOMAIN keys \ val
        before(i, j) ==
            \/ frac_lt(keys[j][1], keys[i][1])
            \/ /\ ~frac_lt(keys[i][1], keys[j][1])
               /\ IF ties = "kept" THEN i < j ELSE i > j
        pos(i) ==
            IF i \in val THEN 1 + Cardinality({j \in val : before(j, i)})
            ELSE Cardinality(val) + 1 + Cardinality({j \in nan : j < i})
    IN [p \in DOMAIN keys |-> CHOOSE i \in DOMAIN keys : pos(i) = p]

take(rows, indexer) == [p \in DOMAIN indexer |-> rows[indexer[p]]]

\* sort_values(by, ascending=False) of a result table.
sort_values(rows, by, ties) ==
    take(rows, nargsort([i \in DOMAIN rows |-> rows[i][by]], ties))

\* Variant of sort_index: descending.
sort_index_descending(rows, by) ==
    [p \in DOMAIN rows |->
        rows[CHOOSE i \in DOMAIN rows :
                Cardinality({j \in DOMAIN rows :
                    ord(by, rows[j].key) > ord(by, rows[i].key)}) = p - 1]]

\* sort_index() of a result table indexed by the keys of column by.
sort_index(rows, by) ==
    [p \in DOMAIN rows |->
        rows[CHOOSE i \in DOMAIN rows :
                Cardinality({j \in DOMAIN rows :
                    ord(by, rows[j].key) < ord(by, rows[i].key)}) = p - 1]]

\* head(n) for n >= 0: the first n rows, all of them when there are fewer.
head(rows, n) == SubSeq(rows, 1, IF n < Len(rows) THEN n ELSE Len(rows))

\* The columns get_descriptive_statistics looks at when it is given none.
default_columns ==
    <<"GPA", "Number_of_credits_approved", "credits_remaining",
      "current_semester", "course_load", "library_books_borrowed">>

\* pd.api.types.is_numeric_dtype(df[col]): the columns of a cleaned table
\* with an integer, float or bool dtype.
is_numeric_dtype(col) ==
    col \in Range(numeric_cols) \cup {"age", "years_enrolled", "scholarship"}

\* Series.quantile(q / 4) with linear interpolation, skipping missing values.
quantile(s, q) ==
    LET n == agg_count(s)
        lo == ((n - 1) * q) \div 4
        m == ((n - 1) * q) % 4
    IN IF n = 0 THEN NA
       ELSE IF m = 0 THEN <<frac(4 * kth(s, lo + 1), 4)>>
       ELSE <<frac((4 - m) * kth(s, lo + 1) + m * kth(s, lo + 2), 4)>>

\* The index of DataFrame.describe() for numeric columns.
describe_index == <<"count", "mean", "std", "min", "25%", "50%", "75%", "max">>

describe_cell(s, name) ==
    CASE name = "count" -> <<agg_count(s)>>
      [] name = "mean" -> agg_mean(s)
      [] name = "std" -> agg_std(s)
      [] name = "min" -> agg_min(s)
      [] name = "25%" -> quantile(s, 1)
      [] name = "50%" -> quantile(s, 2)
      [] name = "75%" -> quantile(s, 3)
      [] name = "max" -> agg_max(s)

\* df[columns].describe(): a frame with its index, its columns and the
\* cell at each index label and column.
describe(t, columns) ==
    [index |-> describe_index,
     columns |-> columns,
     at |-> [r \in Range(describe_index) |->
               [c \in Range(columns) |-> describe_cell(t[c], r)]]]

\* pd.concat of the statistics with a row 'median' of the column medians.
concat_median(t, stats) ==
    [index |-> Append(stats.index, "median"),
     columns |-> stats.columns,
     at |-> [r \in Range(stats.index) \cup {"median"} |->
               IF r = "median"
               THEN [c \in Range(stats.columns) |-> agg_median(t[c])]
               ELSE stats.at[r]]]

\* pd.DataFrame(): no index, no columns.
empty_frame == [index |-> <<>>, columns |-> <<>>, at |-> <<>>]

\* columns is NA for None, else <<the list>>.
get_descriptive_statistics(t, columns) ==
    LET cols == IF columns = NA THEN default_columns ELSE columns[1]
        numeric_columns ==
            SelectSeq(cols, LAMBDA c : c \in DOMAIN t /\ is_numeric_dtype(c))
        stats == describe(t, numeric_columns)
    IN IF numeric_columns = <<>> THEN returns(empty_frame)
       ELSE IF "50%" \notin Range(stats.index)
            THEN returns(concat_median(t, stats))
            ELSE returns(stats)

\* Variant of value_counts: sort=False.
value_counts_unsorted(s, ties) ==
    LET keys == unique(s)
    IN [p \in DOMAIN keys |->
          [key |-> keys[p],
           count |-> Cardinality({i \in DOMAIN s : s[i] = <<keys[p]>>})]]

\* Series.value_counts() with its defaults sort=True, ascending=False,
\* dropna=True: the distinct non-missing values, each with the number of
\* its rows, by descending count.
value_counts(s, ties) ==
    LET keys == unique(s)
        rows == [p \in DOMAIN keys |->
                    [key |-> keys[p],
                     count |-> Cardinality({i \in DOMAIN s : s[i] = <<keys[p]>>})]]
    IN take(rows, nargsort([p \in DOMAIN rows |-> <<frac(rows[p].count, 1)>>], ties))

\* Variant of get_value_counts: no check of the column name, an unknown
\* column counts as one without rows.
get_value_counts_unchecked(t, column_name, ties) ==
    IF column_name \notin DOMAIN t THEN returns(<<>>)
    ELSE returns(value_counts(t[column_name], ties))

get_value_counts(t, column_name, ties) ==
    IF column_name \notin DOMAIN t THEN raise("ValueError")
    ELSE returns(value_counts(t[column_name], ties))

\* df.groupby('program') and the selection ['GPA'] look the columns up:
\* pandas raises KeyError for one the table does not have.
analyze_gpa_by_program(t, ties) ==
    LET keys == groupby_keys(t, "program")
        gpa(k) == cells(t["GPA"], group_rows(t, "program", k))
        rows == [p \in DOMAIN keys |->
                    [key |-> keys[p],
                     promedio |-> agg_mean(gpa(keys[p])),
                     mediana |-> agg_median(gpa(keys[p])),
                     minimo |-> agg_min(gpa(keys[p])),
                     maximo |-> agg_max(gpa(keys[p])),
                     desviacion_estandar |-> agg_std(gpa(keys[p])),
                     count |-> agg_count(gpa(keys[p]))]]
    IN IF {"program", "GPA"} \subseteq DOMAIN t
       THEN returns(sort_values(rows, "promedio", ties))
       ELSE raise("KeyError")

analyze_scholarship_distribution(t, groupby_column, ties) ==
    IF groupby_column \notin DOMAIN t THEN raise("ValueError")
    ELSE LET keys == groupby_keys(t, groupby_column)
             beca(k) == cells(t["scholarship"], group_rows(t, groupby_column, k))
             rows == [p \in DOMAIN keys |->
                         [key |-> keys[p],
                          total_estudiantes |-> agg_count(beca(keys[p])),
                          estudiantes_con_beca |-> sum_true(beca(keys[p])),
                          porcentaje_con_beca |-> percentage(beca(keys[p]))]]
         IN returns(sort_values(rows, "porcentaje_con_beca", ties))

analyze_credits_by_semester(t) ==
    LET keys == groupby_keys(t, "current_semester")
        credits(k) == cells(t["Number_of_credits_approved"],
                            group_rows(t, "current_semester", k))
        rows == [p \in DOMAIN keys |->
                    [key |-> keys[p],
                     promedio_creditos |-> agg_mean(credits(keys[p])),
                     total_estudiantes |-> agg_count(credits(keys[p])),
                     mediana_creditos |-> agg_median(credits(keys[p])),
                     max_creditos |-> agg_max(credits(keys[p])),
                     min_creditos |-> agg_min(credits(keys[p]))]]
    IN IF {"current_semester", "Number_of_credits_approved"} \subseteq DOMAIN t
       THEN returns(sort_index(rows, "current_semester"))
       ELSE raise("KeyError")

get_top_programs_by_gpa(t, top_n, ties) ==
    LET keys == groupby_keys(t, "program")
        gpa(k) == cells(t["GPA"], group_rows(t, "program", k))
        rows == [p \in DOMAIN keys |->
                    [key |-> keys[p],
                     promedio_gpa |-> agg_mean(gpa(keys[p])),
                     total_estudiantes |-> agg_count(gpa(keys[p]))]]
    IN IF {"program", "GPA"} \subseteq DOMAIN t
       THEN returns(head(sort_values(rows, "promedio_gpa", ties), top_n))
       ELSE raise("KeyError")

\* df.select_dtypes(include=['int64', 'float64']).columns of a cleaned
\* table, in the order of the table: the counters, GPA, the two derived
\* numbers; not the bool scholarship.
select_dtypes ==
    <<"current_semester", "Number_of_credits_approved", "credits_remaining",
      "GPA", "course_load", "library_books_borrowed", "age", "years_enrolled">>

\* A cell as the number corr() computes with: a bool as 0 or 1; of
\* years_enrolled, days/365, the number of days, which has the same
\* correlations.
as_number(c, cell) ==
    IF c = "years_enrolled" THEN cell[1].num
    ELSE IF c = "scholarship" THEN (IF cell[1] THEN 1 ELSE 0)
    ELSE cell[1]

\* The sum of (x[i] - x[j]) * (y[i] - y[j]) over pairs <<i, j>> of rows:
\* over all pairs i < j of n rows it is n times the sum of the products of
\* the deviations from the means.
RECURSIVE codeviation(_, _, _)
codeviation(x, y, pairs) ==
    IF pairs = {} THEN 0
    ELSE LET p == CHOOSE q \in pairs : TRUE
         IN (x[p[1]] - x[p[2]]) * (y[p[1]] - y[p[2]])
            + codeviation(x, y, pairs \ {p})

\* One entry of DataFrame.corr() (Pearson, min_periods=1) over the rows in
\* which both columns have a value: covxy / sqrt(ssqdx * ssqdy), kept as
\* its three terms; NaN when the divisor is 0, that is when no such row is
\* left or one of the columns is constant over them.
corr_cell(t, a, b) ==
    LET obs == notna(t[a]) \cap notna(t[b])
        x == [i \in obs |-> as_number(a, t[a][i])]
        y == [i \in obs |-> as_number(b, t[b][i])]
        pairs == {p \in obs \X obs : p[1] < p[2]}
        ssqdx == codeviation(x, x, pairs)
        ssqdy == codeviation(y, y, pairs)
    IN IF ssqdx = 0 \/ ssqdy = 0 THEN NA
       ELSE <<[covxy |-> codeviation(x, y, pairs),
               ssqdx |-> ssqdx, ssqdy |-> ssqdy]>>

\* df[columns].corr().
corr(t, columns) ==
    [index |-> columns,
     columns |-> columns,
     at |-> [a \in Range(columns) |->
               [b \in Range(columns) |-> corr_cell(t, a, b)]]]

\* columns is NA for None, else <<the list>>.
get_correlation_matrix(t, columns) ==
    LET cols == IF columns = NA
                THEN SelectSeq(select_dtypes, LAMBDA c : c \in DOMAIN t)
                ELSE SelectSeq(columns[1],
                               LAMBDA c : c \in DOMAIN t /\ is_numeric_dtype(c))
    IN IF cols = <<>> THEN returns(empty_frame)
       ELSE returns(corr(t, cols))

\* Variant of crosstab: normalize='all', each count divided by the number
\* of all rows counted.
crosstab_normalize_all(t, index, columns) ==
    LET kept == notna(t[index]) \cap notna(t[columns])
        u == [c \in {index, columns} |-> cells(t[c], kept)]
        keys == groupby_keys(u, index)
        cols == groupby_keys(u, columns)
        n(k, c) == Cardinality({i \in kept : /\ t[index][i] = <<k>>
                                             /\ t[columns][i] = <<c>>})
    IN [p \in DOMAIN keys |->
          [key |-> keys[p],
           columns |-> cols,
           at |-> [c \in Range(cols) |->
                     frac(n(keys[p], c), Cardinality(kept))]]]

\* pd.crosstab(df[index], df[columns], normalize='index'): the rows with a
\* missing value in either column are dropped; one row per value of index
\* and one column per value of columns, both sorted; each count divided by
\* the total of its row.
crosstab(t, index, columns) ==
    LET kept == notna(t[index]) \cap notna(t[columns])
        u == [c \in {index, columns} |-> cells(t[c], kept)]
        keys == groupby_keys(u, index)
        cols == groupby_keys(u, columns)
        n(k, c) == Cardinality({i \in kept : /\ t[index][i] = <<k>>
                                             /\ t[columns][i] = <<c>>})
    IN [p \in DOMAIN keys |->
          [key |-> keys[p],
           columns |-> cols,
           at |-> [c \in Range(cols) |->
                     frac(n(keys[p], c),
                          Cardinality(group_rows(u, index, keys[p])))]]]

\* frame * 100.
times100(rows) ==
    [p \in DOMAIN rows |->
        [rows[p] EXCEPT !.at = [c \in DOMAIN @ |-> frac(100 * @[c].num, @[c].den)]]]

\* df.groupby(by).size(): the number of rows of each key.
groupby_size(t, by) ==
    LET keys == groupby_keys(t, by)
    IN [p \in DOMAIN keys |->
          [key |-> keys[p],
           size |-> Cardinality(group_rows(t, by, keys[p]))]]

\* frame['total_count'] = sizes: the sizes are aligned on the index of the
\* frame, a label without a size gets NaN.
set_total_count(rows, sizes) ==
    [p \in DOMAIN rows |->
        [key |-> rows[p].key,
         columns |-> rows[p].columns,
         at |-> rows[p].at,
         total_count |->
            IF \E q \in DOMAIN sizes : sizes[q].key = rows[p].key
            THEN <<(CHOOSE s \in Range(sizes) : s.key = rows[p].key).size>>
            ELSE NA]]

\* Variant of analyze_student_status_by_academic_standing: the column
\* total_count is set on the table the caller passed.
analyze_student_status_by_academic_standing_in_place(h, ref) ==
    LET t == h[ref]
        names == DOMAIN t \cup {"total_count"}
        status_standing ==
            times100(crosstab(t, "academic_standing", "student_status"))
        sizes == groupby_size(t, "academic_standing")
    IN [heap |-> [h EXCEPT ![ref] =
                     [c \in names |->
                         IF c = "total_count"
                         THEN [i \in DOMAIN t["academic_standing"] |-> NA]
                         ELSE t[c]]],
        out |-> returns(set_total_count(status_standing, sizes))]

\* The table is passed by reference: the function returns the heap as it
\* leaves it, and what the call raised or returned.
analyze_student_status_by_academic_standing(h, ref) ==
    LET t == h[ref]
        status_standing ==
            times100(crosstab(t, "academic_standing", "student_status"))
        sizes == groupby_size(t, "academic_standing")
    IN IF {"academic_standing", "student_status"} \subseteq DOMAIN t
       THEN [heap |-> h, out |-> returns(set_total_count(status_standing, sizes))]
       ELSE [heap |-> h, out |-> raise("KeyError")]

(***************************************************************************)
(* The input tables.                                                       *)
(***************************************************************************)
Columns ==
    {"student_id", "date_of_birth", "gender", "nationality", "program",
     "state_program", "current_semester", "Number_of_credits_approved",
     "credits_remaining", "GPA", "enrollment_date", "student_status",
     "scholarship", "payment_status", "academic_standing", "course_load",
     "marital_status", "library_books_borrowed"}

\* Two valid students, after the sample of the tests.
RowA ==
    [student_id |-> <<"STU000001">>, date_of_birth |-> <<-9000>>,
     gender |-> <<"Female">>, nationality |-> <<"Colombia">>,
     program |-> <<"Biology">>, state_program |-> <<"Enrolled">>,
     current_semester |-> <<64>>, Number_of_credits_approved |-> <<1176>>,
     credits_remaining |-> <<240>>, GPA |-> <<24>>,
     enrollment_date |-> <<-2000>>, student_status |-> <<"Active">>,
     scholarship |-> <<FALSE>>, payment_status |-> <<"Paid">>,
     academic_standing |-> <<"Average">>, course_load |-> <<144>>,
     marital_status |-> <<"Single">>, library_books_borrowed |-> <<8>>]

RowB ==
    [student_id |-> <<"STU000002">>, date_of_birth |-> <<-8000>>,
     gender |-> <<"Male">>, nationality |-> <<"Colombia">>,
     program |-> <<"Computer Science">>, state_program |-> <<"Enrolled">>,
     current_semester |-> <<40>>, Number_of_credits_approved |-> <<680>>,
     credits_remaining |-> <<736>>, GPA |-> <<34>>,
     enrollment_date |-> <<-1500>>, student_status |-> <<"Active">>,
     scholarship |-> <<TRUE>>, payment_status |-> <<"Paid">>,
     academic_standing |-> <<"Excellent">>, course_load |-> <<160>>,
     marital_status |-> <<"Single">>, library_books_borrowed |-> <<0>>]

\* A student with every problem validate_data looks for (born and enrolled
\* in the future), a 90 year old one with a GPA below 0, and a row with no
\* value at all.
RowBad ==
    [RowB EXCEPT !.current_semester = <<-40>>,
                 !.Number_of_credits_approved = <<-8>>,
                 !.credits_remaining = <<-80>>,
                 !.GPA = <<48>>,
                 !.course_load = <<-8>>,
                 !.library_books_borrowed = <<-16>>,
                 !.date_of_birth = <<9000>>,
                 !.enrollment_date = <<1400>>]

RowOld == [RowA EXCEPT !.date_of_birth = <<-33000>>, !.GPA = <<-8>>]

RowBlank == [c \in Columns |-> NA]

Templates == {RowA, RowB, RowBad, RowOld, RowBlank}

FromRows(rows) == [c \in Columns |-> [i \in DOMAIN rows |-> rows[i][c]]]

Base(n) == FromRows([i \in 1..n |-> IF i % 2 = 1 THEN RowA ELSE RowB])

\* The values one column takes when it alone varies.
Dom(c) ==
    CASE c = "GPA" ->
           {NA, <<-8>>, <<0>>, <<16>>, <<24>>, <<28>>, <<32>>, <<40>>, <<48>>}
      [] c \in {"current_semester", "Number_of_credits_approved", "credits_remaining"} ->
           {NA, <<-40>>, <<0>>, <<40>>}
      [] c \in {"course_load", "library_books_borrowed"} ->
           {NA, <<-8>>, <<0>>, <<24>>}
      [] c = "date_of_birth" ->
           {NA, <<10>>, <<-5474>>, <<-5475>>, <<-29200>>, <<-29201>>, <<-29565>>}
      [] c = "enrollment_date" -> {NA, <<-2000>>, <<0>>, <<1>>, <<2>>}
      [] c = "scholarship" -> {NA, <<TRUE>>, <<FALSE>>}
      [] c = "student_id" -> {NA, <<"STU000001">>}
      [] OTHER -> {NA, RowA[c], RowB[c], <<"Unknown">>}


(***************************************************************************)
(* The state machine: a table is loaded, then either validated as it is    *)
(* or cleaned and then validated.  Each call reads the clock for itself.   *)
(* The loaded table has up to MaxRows rows: its rows are templates, or     *)
(* they are valid rows in which one column takes arbitrary values.         *)
(***************************************************************************)
\* No run of main: the functions are called directly.
NoRun ==
    /\ args = [data |-> <<>>, output |-> <<>>, report |-> FALSE]
    /\ fs = [csv |-> NA, written |-> <<>>]
    /\ position = 0
    /\ analyses = <<>>
    /\ stdout = <<>>
    /\ exit_code = NA
    /\ executed = <<>>

Init ==
    /\ df = 1
    /\ \E n \in 0..MaxRows :
          \/ \E rows \in [1..n -> Templates] : heap = (df :> FromRows(rows))
          \/ \E c \in Columns : \E vals \in [1..n -> Dom(c)] :
                heap = (df :> [Base(n) EXCEPT ![c] = vals])
    /\ processed_df = NA
    /\ problems = <<>>
    /\ target = "none"
    /\ pc = "loaded"
    /\ clock = 0
    /\ processed_at = NA
    /\ validated_at = NA
    /\ call = [fn |-> "none"]
    /\ result = [raised |-> "none", value |-> NA]
    /\ NoRun

Preprocess ==
    /\ pc = "loaded"
    /\ \E now \in clock..MaxDrift :
          LET r == preprocess_data(heap, df, now)
          IN /\ heap' = r.heap
             /\ processed_df' = r.ret
             /\ pc' = IF r.raised THEN "raised" ELSE "processed"
             /\ clock' = now
             /\ processed_at' = <<now>>
    /\ UNCHANGED <<df, problems, target, validated_at, call, result>>
    /\ UNCHANGED main_vars

Validate(ref, which) ==
    /\ \E now \in clock..MaxDrift :
          /\ problems' = validate_data(heap[ref], now)
          /\ clock' = now
          /\ validated_at' = <<now>>
    /\ target' = which
    /\ pc' = "validated"
    /\ UNCHANGED <<heap, df, processed_df, processed_at, call, result>>
    /\ UNCHANGED main_vars

ValidateRaw == pc = "loaded" /\ Validate(df, "raw")

ValidateProcessed == pc = "processed" /\ Validate(processed_df[1], "processed")

Next == Preprocess \/ ValidateRaw \/ ValidateProcessed

Spec == Init /\ [][Next]_vars

(***************************************************************************)
(* The aggregations: a table is loaded and cleaned as before, then the     *)
(* cleaned table is validated or one of the functions of analysis.py is    *)
(* called on it.  The loaded table has up to MaxRows rows taken from the   *)
(* students below.                                                         *)
(***************************************************************************)
\* Students after the sample of the tests of the aggregations: three
\* programs, two of them with the same GPA, a semester with two students,
\* a program with and one without a scholarship; and students without a
\* GPA, a program, a gender, a marital status, a status or a standing.
Mathematician ==
    [RowA EXCEPT !.program = <<"Mathematics">>, !.GPA = <<34>>,
                 !.scholarship = <<TRUE>>, !.marital_status = NA,
                 !.student_status = <<"Inactive">>,
                 !.current_semester = <<40>>,
                 !.Number_of_credits_approved = <<400>>]

Ungraded ==
    [RowB EXCEPT !.program = <<"Biology">>, !.GPA = NA,
                 !.gender = <<"Female">>, !.marital_status = <<"Married">>]

Undeclared ==
    [RowA EXCEPT !.program = NA, !.gender = NA, !.GPA = <<40>>,
                 !.scholarship = <<TRUE>>, !.marital_status = NA,
                 !.student_status = NA,
                 !.current_semester = <<16>>,
                 !.Number_of_credits_approved = <<280>>]

Overgraded ==
    [RowB EXCEPT !.program = <<"Mathematics">>, !.GPA = <<48>>,
                 !.scholarship = <<FALSE>>, !.current_semester = <<24>>,
                 !.academic_standing = NA]

Students == {RowA, RowB, Mathematician, Ungraded, Undeclared, Overgraded}

\* The column names the callers pass, and one no table has.
ColumnNames == {"program", "gender", "marital_status", "columna_inexistente"}

\* The column lists get_descriptive_statistics and get_correlation_matrix
\* are given: None, two numeric columns, a numeric column and one no table
\* has, and a list without any numeric column of the table.
ColumnLists ==
    {NA, << <<"GPA", "course_load">> >>, << <<"GPA", "columna_inexistente">> >>,
     << <<"program", "columna_inexistente">> >>}

\* A table built without one of the columns, as the samples of the tests.
without(t, column) == [c \in DOMAIN t \ {column} |-> t[c]]

\* The grouped analyses without a check of their columns, and the columns
\* they group by.
Grouped ==
    {"analyze_gpa_by_program", "analyze_credits_by_semester",
     "get_top_programs_by_gpa"}

GroupedColumns == {"program", "current_semester"}

Ties == {"kept", "reversed"}

InitAnalysis ==
    /\ df = 1
    /\ \E n \in 0..MaxRows : \E rows \in [1..n -> Students] :
          heap = (df :> FromRows(rows))
    /\ processed_df = NA
    /\ problems = <<>>
    /\ target = "none"
    /\ pc = "loaded"
    /\ clock = 0
    /\ processed_at = NA
    /\ validated_at = NA
    /\ call = [fn |-> "none"]
    /\ result = [raised |-> "none", value |-> NA]
    /\ NoRun

\* A call of an aggregation on the cleaned table: pure, it leaves all but
\* call and result as they are.
Analysed ==
    /\ pc' = "analysed"
    /\ UNCHANGED <<heap, df, processed_df, problems, target, clock,
                   processed_at, validated_at>>
    /\ UNCHANGED main_vars

DescriptiveStatistics ==
    /\ pc = "processed"
    /\ \E columns \in ColumnLists :
          /\ call' = [fn |-> "get_descriptive_statistics", columns |-> columns]
          /\ result' = get_descriptive_statistics(heap[processed_df[1]], columns)
    /\ Analysed

ValueCounts ==
    /\ pc = "processed"
    /\ \E column_name \in ColumnNames : \E ties \in Ties :
          /\ call' = [fn |-> "get_value_counts", column |-> column_name,
                      ties |-> ties]
          /\ result' = get_value_counts(heap[processed_df[1]], column_name, ties)
    /\ Analysed

GpaByProgram ==
    /\ pc = "processed"
    /\ \E ties \in Ties :
          /\ call' = [fn |-> "analyze_gpa_by_program", ties |-> ties]
          /\ result' = analyze_gpa_by_program(heap[processed_df[1]], ties)
    /\ Analysed

ScholarshipDistribution ==
    /\ pc = "processed"
    /\ \E groupby_column \in ColumnNames : \E ties \in Ties :
          /\ call' = [fn |-> "analyze_scholarship_distribution",
                      column |-> groupby_column, ties |-> ties]
          /\ result' = analyze_scholarship_distribution(
                           heap[processed_df[1]], groupby_column, ties)
    /\ Analysed

CreditsBySemester ==
    /\ pc = "processed"
    /\ call' = [fn |-> "analyze_credits_by_semester"]
    /\ result' = analyze_credits_by_semester(heap[processed_df[1]])
    /\ Analysed

TopProgramsByGpa ==
    /\ pc = "processed"
    /\ \E top_n \in 0..MaxTop : \E ties \in Ties :
          /\ call' = [fn |-> "get_top_programs_by_gpa", top_n |-> top_n,
                      ties |-> ties]
          /\ result' = get_top_programs_by_gpa(heap[processed_df[1]], top_n, ties)
    /\ Analysed

CorrelationMatrix ==
    /\ pc = "processed"
    /\ \E columns \in ColumnLists :
          /\ call' = [fn |-> "get_correlation_matrix", columns |-> columns]
          /\ result' = get_correlation_matrix(heap[processed_df[1]], columns)
    /\ Analysed

StatusByAcademicStanding ==
    /\ pc = "processed"
    /\ LET r == analyze_student_status_by_academic_standing(heap, processed_df[1])
       IN /\ call' = [fn |-> "analyze_student_status_by_academic_standing"]
          /\ result' = r.out
          /\ heap' = r.heap
    /\ pc' = "analysed"
    /\ UNCHANGED <<df, processed_df, problems, target, clock, processed_at,
                   validated_at>>
    /\ UNCHANGED main_vars

\* A grouped analysis called on a cleaned table that lacks a column.
GroupedWithoutColumn ==
    /\ pc = "processed"
    /\ \E fn \in Grouped : \E column \in GroupedColumns : \E ties \in Ties :
          LET t == without(heap[processed_df[1]], column)
          IN /\ call' = [fn |-> fn, without |-> column, ties |-> ties]
             /\ result' =
                   CASE fn = "analyze_gpa_by_program" ->
                          analyze_gpa_by_program(t, ties)
                     [] fn = "analyze_credits_by_semester" ->
                          analyze_credits_by_semester(t)
                     [] fn = "get_top_programs_by_gpa" ->
                          get_top_programs_by_gpa(t, MaxTop, ties)
    /\ pc' = "analysed without"
    /\ UNCHANGED <<heap, df, processed_df, problems, target, clock,
                   processed_at, validated_at>>
    /\ UNCHANGED main_vars

NextAnalysis ==
    \/ Preprocess
    \/ ValidateProcessed
    \/ DescriptiveStatistics
    \/ ValueCounts
    \/ GpaByProgram
    \/ ScholarshipDistribution
    \/ CreditsBySemester
    \/ TopProgramsByGpa
    \/ CorrelationMatrix
    \/ StatusByAcademicStanding
    \/ GroupedWithoutColumn

SpecAnalysis == InitAnalysis /\ [][NextAnalysis]_vars

(***************************************************************************)
(* src/main.py and load_university_data of src/src/data_loader.py.  A path *)
(* is the sequence of its components.  The file system holds the input     *)
(* file (NA when the path does not exist) and the files main has written,  *)
(* in the order of writing, each with its content.                         *)
(***************************************************************************)
\* Variant of load_university_data: no check of the path, a missing file
\* reads as a table without rows.
load_university_data_unchecked(files, parses) ==
    IF files.csv = NA THEN returns(FromRows(<<>>))
    ELSE IF ~parses THEN raise("ParserError")
    ELSE returns(files.csv[1])

\* The path is checked before pd.read_csv is called; parses says whether
\* read_csv accepts the content of the file.
load_university_data(files, parses) ==
    IF files.csv = NA THEN raise("FileNotFoundError")
    ELSE IF ~parses THEN raise("ParserError")
    ELSE returns(files.csv[1])

\* os.path.join(directory, name).
join(directory, name) == Append(directory, name)

\* os.path.dirname(path).
dirname(path) == SubSeq(path, 1, Len(path) - 1)

\* The number of leading components two paths share.
RECURSIVE commonprefix(_, _)
commonprefix(p, q) ==
    IF p = <<>> \/ q = <<>> \/ Head(p) # Head(q) THEN 0
    ELSE 1 + commonprefix(Tail(p), Tail(q))

\* os.path.relpath(path, start): up from start to the shared directory,
\* then down to path.
relpath(path, start) ==
    LET k == commonprefix(path, start)
    IN [i \in 1..(Len(start) - k) |-> ".."] \o SubSeq(path, k + 1, Len(path))

\* A file is written: it is created, or replaced where it stands.
write(written, path, content) ==
    IF \E i \in DOMAIN written : written[i].path = path
    THEN [i \in DOMAIN written |->
             IF written[i].path = path
             THEN [path |-> path, content |-> content] ELSE written[i]]
    ELSE Append(written, [path |-> path, content |-> content])

\* analyses[title] = {"image_path": ..., "text": ...}: a dict keeps its keys
\* in the order of their first insertion.
dict_set(d, title, image_path, text) ==
    LET item == [title |-> title, image_path |-> image_path, text |-> text]
    IN IF \E i \in DOMAIN d : d[i].title = title
       THEN [i \in DOMAIN d |-> IF d[i].title = title THEN item ELSE d[i]]
       ELSE Append(d, item)

\* The image reference generate_report writes for one chart.
image_reference(image_path, output_dir) ==
    <<"..">> \o relpath(image_path, output_dir)

conclusions ==
    <<"- Los datos muestran patrones interesantes",
      "- Se observa una clara distribución de estudiantes",
      "- El estatus de beca parece tener una relación",
      "- Se recomiendan análisis adicionales">>

\* generate_report(analyses, output_dir): the path and the content of the
\* file it writes.
generate_report(d, output_dir) ==
    [path |-> join(output_dir, "analysis_report.md"),
     content |->
        [complete |-> TRUE,
         sections |-> [i \in DOMAIN d |->
                          [title |-> d[i].title,
                           image |-> image_reference(d[i].image_path, output_dir),
                           text |-> d[i].text]],
         conclusions |-> conclusions]]

\* The statements of the try block of main in their order.
Program ==
    <<[stage |-> "load", stmt |-> "load_university_data"],
      [stage |-> "clean", stmt |-> "preprocess_data"],
      [stage |-> "validate", stmt |-> "validate_data"],
      [stage |-> "aggregate", stmt |-> "get_descriptive_statistics"],
      [stage |-> "aggregate", stmt |-> "to_csv",
       file |-> "descriptive_statistics.csv"],
      [stage |-> "aggregate", stmt |-> "get_value_counts", column |-> "program"],
      [stage |-> "aggregate", stmt |-> "get_value_counts", column |-> "gender"],
      [stage |-> "aggregate", stmt |-> "get_value_counts",
       column |-> "academic_standing"],
      [stage |-> "aggregate", stmt |-> "get_correlation_matrix"],
      [stage |-> "aggregate", stmt |-> "analyze_gpa_by_program"],
      [stage |-> "aggregate", stmt |-> "analyze_scholarship_distribution",
       column |-> "gender"],
      [stage |-> "aggregate", stmt |-> "analyze_credits_by_semester"],
      [stage |-> "visualize", stmt |-> "plot_gpa_distribution",
       title |-> "Distribución de GPA", file |-> "gpa_distribution.png"],
      [stage |-> "visualize", stmt |-> "plot_students_per_program",
       title |-> "Estudiantes por Programa", file |-> "students_per_program.png"],
      [stage |-> "visualize", stmt |-> "plot_gpa_vs_credits",
       title |-> "GPA vs Créditos Aprobados", file |-> "gpa_vs_credits.png"],
      [stage |-> "visualize", stmt |-> "plot_scholarship_status",
       title |-> "Distribución de Becas", file |-> "scholarship_status.png"],
      [stage |-> "visualize", stmt |-> "plot_academic_standing_distribution",
       title |-> "Distribución de Rendimiento Académico",
       file |-> "academic_standing.png"],
      [stage |-> "visualize", stmt |-> "plot_gpa_boxplot_by_program",
       title |-> "GPA por Programa", file |-> "gpa_boxplot_by_program.png"],
      [stage |-> "visualize", stmt |-> "plot_correlation_heatmap",
       title |-> "Mapa de Calor de Correlación",
       file |-> "correlation_heatmap.png"],
      [stage |-> "report", stmt |-> "generate_report",
       file |-> "analysis_report.md"]>>

\* The aggregation of one statement of main on the cleaned table.
aggregate(step, t, ties) ==
    CASE step.stmt = "get_descriptive_statistics" ->
           get_descriptive_statistics(t, NA)
      [] step.stmt = "get_value_counts" -> get_value_counts(t, step.column, ties)
      [] step.stmt = "get_correlation_matrix" -> get_correlation_matrix(t, NA)
      [] step.stmt = "analyze_gpa_by_program" -> analyze_gpa_by_program(t, ties)
      [] step.stmt = "analyze_scholarship_distribution" ->
           analyze_scholarship_distribution(t, step.column, ties)
      [] step.stmt = "analyze_credits_by_semester" ->
           analyze_credits_by_semester(t)

\* Variant of except_exit: the handler prints and main returns.
except_return(out, e) ==
    [stdout |-> Append(out, [line |-> "Error durante el análisis", e |-> e]),
     exit_code |-> <<0>>]

\* except Exception as e: print(...); sys.exit(1).
except_exit(out, e) ==
    [stdout |-> Append(out, [line |-> "Error durante el análisis", e |-> e]),
     exit_code |-> <<1>>]

\* Variant of print_problems: the problems are printed and end the run.
print_problems_and_stop(out, found) ==
    [stdout |-> Append(out, [line |-> "=== Problemas encontrados en los datos ===",
                             problems |-> found]),
     exit_code |-> IF found = <<>> THEN NA ELSE <<0>>]

\* if problems: print them, else print that there are none; main goes on.
print_problems(out, found) ==
    [stdout |->
        IF found # <<>>
        THEN Append(out, [line |-> "=== Problemas encontrados en los datos ===",
                          problems |-> found])
        ELSE Append(out, [line |-> "No se encontraron problemas en los datos."]),
     exit_code |-> NA]

(***************************************************************************)
(* A run of main, from the try block on: the output directory exists and   *)
(* the two lines naming the paths are printed.  Each step is one statement *)
(* of the block.  Any statement may raise for a reason outside the model   *)
(* (memory, the disk, the plotting backend); the cleaner also raises on a  *)
(* column without values.  The input file holds up to MaxRows rows or does *)
(* not exist.                                                              *)
(***************************************************************************)
MainRows == {RowA, RowBad, RowBlank}

OutputDirs == {<<"output">>, <<"results", "run1">>}

InitMain ==
    /\ df = 0
    /\ heap = <<>>
    /\ processed_df = NA
    /\ problems = <<>>
    /\ target = "none"
    /\ pc = "start"
    /\ clock = 0
    /\ processed_at = NA
    /\ validated_at = NA
    /\ call = [fn |-> "none"]
    /\ result = [raised |-> "none", value |-> NA]
    /\ \E output \in OutputDirs : \E report \in BOOLEAN :
          args = [data |-> <<"data", "university_data.csv">>,
                  output |-> output, report |-> report]
    /\ \/ fs = [csv |-> NA, written |-> <<>>]
       \/ \E n \in 0..MaxRows : \E rows \in [1..n -> MainRows] :
             fs = [csv |-> <<FromRows(rows)>>, written |-> <<>>]
    /\ position = 1
    /\ analyses = <<>>
    /\ stdout = <<[line |-> "Usando datos de"], [line |-> "Guardando resultados en"]>>
    /\ exit_code = NA
    /\ executed = <<>>

\* The statement main is at, when the run has not ended.
At(stage) ==
    /\ exit_code = NA
    /\ position \in DOMAIN Program
    /\ Program[position].stage = stage

Executed(outcome) ==
    executed' = Append(executed, [stage |-> Program[position].stage,
                                  stmt |-> Program[position].stmt,
                                  outcome |-> outcome])

\* The statement raised e: the handler of main prints it and exits.
Raise(out, e) ==
    LET h == except_exit(out, e)
    IN /\ stdout' = h.stdout
       /\ exit_code' = h.exit_code
       /\ Executed(e)
       /\ position' = position

\* The statement returned: main goes on with the next one.
Advance(out) ==
    /\ stdout' = out
    /\ exit_code' = exit_code
    /\ Executed("ok")
    /\ position' = position + 1

MainLoad ==
    /\ At("load")
    /\ \E parses \in BOOLEAN :
          LET r == load_university_data(fs, parses)
              out == Append(stdout, [line |-> "=== Cargando datos ==="])
          IN IF r.raised # "none"
             THEN /\ Raise(out, r.raised)
                  /\ UNCHANGED <<heap, df, pc>>
             ELSE /\ heap' = (1 :> r.value[1])
                  /\ df' = 1
                  /\ pc' = "loaded"
                  /\ Advance(Append(out, [line |-> "Datos cargados exitosamente"]))
    /\ UNCHANGED <<processed_df, problems, target, clock, processed_at,
                   validated_at, call, result, args, fs, analyses>>

MainClean ==
    /\ At("clean")
    /\ \E now \in clock..MaxDrift : \E fault \in BOOLEAN :
          LET r == preprocess_data(heap, df, now)
              out == Append(stdout, [line |-> "=== Procesando datos ==="])
          IN /\ clock' = now
             /\ IF fault
                THEN /\ Raise(out, "Exception")
                     /\ UNCHANGED <<heap, processed_df, pc, processed_at>>
                ELSE /\ heap' = r.heap
                     /\ processed_df' = r.ret
                     /\ processed_at' = <<now>>
                     /\ pc' = IF r.raised THEN "raised" ELSE "processed"
                     /\ IF r.raised THEN Raise(out, "ValueError")
                        ELSE Advance(Append(out,
                                 [line |-> "Datos procesados exitosamente"]))
    /\ UNCHANGED <<df, problems, target, validated_at, call, result, args, fs,
                   analyses>>

MainValidate ==
    /\ At("validate")
    /\ \E now \in clock..MaxDrift : \E fault \in BOOLEAN :
          /\ clock' = now
          /\ IF fault
             THEN /\ Raise(stdout, "Exception")
                  /\ UNCHANGED <<problems, target, pc, validated_at>>
             ELSE LET found == validate_data(heap[processed_df[1]], now)
                      h == print_problems(stdout, found)
                  IN /\ problems' = found
                     /\ target' = "processed"
                     /\ validated_at' = <<now>>
                     /\ pc' = "validated"
                     /\ stdout' = h.stdout
                     /\ exit_code' = h.exit_code
                     /\ Executed("ok")
                     /\ position' = position + 1
    /\ UNCHANGED <<heap, df, processed_df, processed_at, call, result, args, fs,
                   analyses>>

MainAggregate ==
    /\ At("aggregate")
    /\ Program[position].stmt # "to_csv"
    /\ \E ties \in Ties : \E fault \in BOOLEAN :
          LET step == Program[position]
              r == aggregate(step, heap[processed_df[1]], ties)
              out == Append(stdout, [line |-> "===", of |-> step.stmt])
          IN IF fault
             THEN /\ Raise(out, "Exception")
                  /\ UNCHANGED <<call, result, pc>>
             ELSE /\ call' = [fn |-> step.stmt, ties |-> ties]
                  /\ result' = r
                  /\ pc' = "analysed"
                  /\ IF r.raised # "none" THEN Raise(out, r.raised)
                     ELSE Advance(out)
    /\ UNCHANGED <<heap, df, processed_df, problems, target, clock,
                   processed_at, validated_at, args, fs, analyses>>

\* desc_stats.to_csv(desc_stats_path): a failing write may leave the file.
MainToCsv ==
    /\ At("aggregate")
    /\ Program[position].stmt = "to_csv"
    /\ LET path == join(args.output, Program[position].file)
           file == write(fs.written, path, [csv |-> "desc_stats"])
       IN \/ /\ fs' = [fs EXCEPT !.written = file]
             /\ Advance(Append(stdout,
                    [line |-> "Estadísticas descriptivas guardadas en"]))
          \/ /\ \E left \in BOOLEAN :
                   fs' = IF left THEN [fs EXCEPT !.written = file] ELSE fs
             /\ Raise(stdout, "OSError")
    /\ UNCHANGED <<heap, df, processed_df, problems, target, pc, clock,
                   processed_at, validated_at, call, result, args, analyses>>

\* One chart: the plot function draws, saves the figure, then computes the
\* text it returns, and main files both under the title of the chart.  It
\* may raise before the figure is saved or after.
MainChart ==
    /\ At("visualize")
    /\ LET step == Program[position]
           path == join(args.output, step.file)
           out == Append(stdout, [line |-> "Generando visualización",
                                  title |-> step.title])
           saved == [fs EXCEPT !.written = write(@, path, [chart |-> step.stmt])]
       IN \/ /\ fs' = saved
             /\ analyses' = dict_set(analyses, step.title, path,
                                     [analysis |-> step.stmt])
             /\ Advance(out)
          \/ /\ fs' \in {fs, saved}
             /\ analyses' = analyses
             /\ Raise(out, "Exception")
    /\ UNCHANGED <<heap, df, processed_df, problems, target, pc, clock,
                   processed_at, validated_at, call, result, args>>

\* if args.report: generate_report(analyses, output_dir).  A failure
\* before the file is opened leaves nothing, one while it is written
\* leaves an incomplete file.
MainReport ==
    /\ At("report")
    /\ IF ~args.report
       THEN /\ position' = position + 1
            /\ UNCHANGED <<fs, stdout, exit_code, executed>>
       ELSE LET r == generate_report(analyses, args.output)
                out == Append(stdout, [line |-> "=== Generando Reporte ==="])
            IN \/ /\ fs' = [fs EXCEPT !.written = write(@, r.path, r.content)]
                  /\ Advance(Append(out, [line |-> "Reporte generado"]))
               \/ /\ fs' \in {fs, [fs EXCEPT !.written =
                                      write(@, r.path, [complete |-> FALSE])]}
                  /\ Raise(out, "OSError")
    /\ UNCHANGED <<heap, df, processed_df, problems, target, pc, clock,
                   processed_at, validated_at, call, result, args, analyses>>

\* The end of the try block: main returns and the process exits with 0.
MainReturn ==
    /\ exit_code = NA
    /\ position = Len(Program) + 1
    /\ stdout' = Append(stdout, [line |-> "=== Análisis Completado ==="])
    /\ exit_code' = <<0>>
    /\ UNCHANGED <<heap, df, processed_df, problems, target, pc, clock,
                   processed_at, validated_at, call, result, args, fs,
                   position, analyses, executed>>

NextMain ==
    \/ MainLoad
    \/ MainClean
    \/ MainValidate
    \/ MainAggregate
    \/ MainToCsv
    \/ MainChart
    \/ MainReport
    \/ MainReturn

SpecMain == InitMain /\ [][NextMain]_vars

(***************************************************************************)
(* Properties.                                                             *)
(***************************************************************************)
Raw == heap[df]

Clean == heap[processed_df[1]]

Returned == processed_df # NA

Rows(t) == DOMAIN t["GPA"]

Value(cell) == cell[1]

\* The category the half-open breakpoints give a GPA (in eighths).
HalfOpenCategory(g) ==
    IF g < 16 THEN "Muy bajo"
    ELSE IF g < 24 THEN "Bajo"
    ELSE IF g < 28 THEN "Medio"
    ELSE IF g < 32 THEN "Alto"
    ELSE "Excelente"

\* C1: in a returned table, the performance_category of every row with a
\* GPA is the one of the half-open breakpoints [0,2) [2,3) [3,3.5) [3.5,4)
\* [4,5] on the clamped GPA.
C1_HalfOpenBreakpoints ==
    Returned =>
        \A i \in Rows(Clean) :
            ~isna(Clean["GPA"][i]) =>
                Clean["performance_category"][i]
                    = <<HalfOpenCategory(Value(Clean["GPA"][i]))>>

\* C2: in a returned table every row has one of the five categories, never
\* a missing one.
C2_CategoryTotal ==
    Returned =>
        \A i \in Rows(Clean) :
            /\ ~isna(Clean["performance_category"][i])
            /\ Value(Clean["performance_category"][i]) \in Range(labels)

\* C3: in a returned table every GPA value lies in [0,5] and every
\* credits_remaining value is >= 0: a raw value below the range is at the
\* lower end, a raw GPA above 5 is 5, a raw value in range is unchanged.  A
\* GPA is missing only where the raw table had no GPA at all.
C3_Clamped ==
    Returned =>
        \A i \in Rows(Clean) :
            LET g == Clean["GPA"][i]
                rg == Raw["GPA"][i]
                c == Clean["credits_remaining"][i]
                rc == Raw["credits_remaining"][i]
            IN /\ isna(g) => \A j \in Rows(Raw) : isna(Raw["GPA"][j])
               /\ ~isna(g) => 0 <= Value(g) /\ Value(g) <= 40
               /\ ~isna(rg) =>
                     Value(g) = IF Value(rg) < 0 THEN 0
                                ELSE IF Value(rg) > 40 THEN 40 ELSE Value(rg)
               /\ ~isna(c) /\ Value(c) >= 0
               /\ ~isna(rc) =>
                     Value(c) = IF Value(rc) < 0 THEN 0 ELSE Value(rc)

C3_Witness ==
    /\ Returned
    /\ \E i \in Rows(Raw) : ~isna(Raw["GPA"][i]) /\ Value(Raw["GPA"][i]) > 40
    /\ \E i \in Rows(Raw) : ~isna(Raw["GPA"][i]) /\ Value(Raw["GPA"][i]) < 0
    /\ \E i \in Rows(Raw) : ~isna(Raw["GPA"][i]) /\ Value(Raw["GPA"][i]) \in 1..39
    /\ \E i \in Rows(Raw) :
          ~isna(Raw["credits_remaining"][i]) /\ Value(Raw["credits_remaining"][i]) < 0

\* C4: a call of preprocess_data, whether it returns or raises, leaves the
\* caller's table as it was: same columns, same cells.
C4_CallerTableUnchanged ==
    [][(pc = "loaded" /\ pc' \in {"processed", "raised"})
          => (df' = df /\ heap'[df] = heap[df])]_vars

\* The cleaner corrected a missing value, a GPA above 5 and a negative
\* credits_remaining in its result.
C4_Witness ==
    /\ pc = "processed"
    /\ \E i \in Rows(Raw) : isna(Raw["course_load"][i]) /\ ~isna(Clean["course_load"][i])
    /\ \E i \in Rows(Raw) : gt(Raw["GPA"][i], 40) /\ Clean["GPA"][i] = <<40>>
    /\ \E i \in Rows(Raw) :
          lt(Raw["credits_remaining"][i], 0) /\ Clean["credits_remaining"][i] = <<0>>

Derived == {"age", "years_enrolled", "performance_category"}

\* C5: a returned table has the rows of the input, as many and in the same
\* order (the columns the cleaner does not touch are cell for cell those of
\* the input, and so is every student_id the input has), and its columns
\* are the input's plus age, years_enrolled and performance_category.
C5_SameRowsMoreColumns ==
    Returned =>
        /\ DOMAIN Clean = DOMAIN Raw \cup Derived
        /\ \A c \in DOMAIN Clean : DOMAIN Clean[c] = Rows(Raw)
        /\ \A c \in {"date_of_birth", "enrollment_date", "marital_status"} :
              Clean[c] = Raw[c]
        /\ \A i \in Rows(Raw) :
              ~isna(Raw["student_id"][i]) => Clean["student_id"][i] = Raw["student_id"][i]

C5_Witness ==
    /\ Returned
    /\ Cardinality(Rows(Raw)) >= 2
    /\ \E c \in Range(numeric_cols) : any_isna(Raw[c])
    /\ Raw["student_id"][1] # Raw["student_id"][2]

Unclamped ==
    {"current_semester", "Number_of_credits_approved", "course_load",
     "library_books_borrowed"}

Negatives(t, c) == {i \in Rows(t) : ~isna(t[c][i]) /\ Value(t[c][i]) < 0}

\* C6: a negative value of current_semester, Number_of_credits_approved,
\* course_load or library_books_borrowed is the same in the returned table,
\* and validate_data on the returned table reports the column with the
\* number of its negative cells.
C6_NotCorrected ==
    Returned =>
        \A c \in Unclamped :
            /\ \A i \in Negatives(Raw, c) : Clean[c][i] = Raw[c][i]
            /\ (pc = "validated" /\ target = "processed" /\ Negatives(Raw, c) # {}) =>
                  \E j \in DOMAIN problems :
                      /\ problems[j].col = c
                      /\ problems[j].count = Cardinality(Negatives(Clean, c))
                      /\ problems[j].count >= Cardinality(Negatives(Raw, c))

C6_Witness ==
    /\ pc = "validated"
    /\ target = "processed"
    /\ \A c \in Unclamped : Negatives(Raw, c) # {}

Present(col) == {i \in DOMAIN col : ~isna(col[i])}

\* The non-missing values of a column in non-decreasing order.
Sorted(col) ==
    LET n == Cardinality(Present(col))
        order == CHOOSE f \in [1..n -> Present(col)] :
                    /\ \A a, b \in 1..n : a # b => f[a] # f[b]
                    /\ \A k \in 1..(n - 1) : Value(col[f[k]]) <= Value(col[f[k + 1]])
    IN [k \in 1..n |-> Value(col[order[k]])]

\* The median of the non-missing values of a column that has one: the
\* middle one in order, or half the sum of the two middle ones.
MedianOf(col) ==
    LET n == Cardinality(Present(col))
        q == Sorted(col)
    IN IF n % 2 = 1 THEN q[(n + 1) \div 2]
       ELSE CHOOSE m \in q[n \div 2]..q[n \div 2 + 1] : 2 * m = q[n \div 2] + q[n \div 2 + 1]

\* The whole number (a multiple of 8 eighths) next to x on the side of zero.
TowardZero(x) ==
    CHOOSE w \in (x - 7)..(x + 7) :
        /\ w % 8 = 0
        /\ IF x >= 0 THEN w <= x ELSE w >= x

Within(x, lo, hi) == IF x < lo THEN lo ELSE IF x > hi THEN hi ELSE x

\* What the steps after the imputation make of a value of column c.
LaterSteps(c, x) ==
    CASE c \in {"current_semester", "Number_of_credits_approved"} -> TowardZero(x)
      [] c = "credits_remaining" -> IF TowardZero(x) < 0 THEN 0 ELSE TowardZero(x)
      [] c = "GPA" -> Within(x, 0, 40)
      [] OTHER -> x

Counters == {"current_semester", "Number_of_credits_approved", "credits_remaining"}

\* C7 as stated: in a returned table every cell of a numeric column whose
\* raw cell is missing holds the median of the non-missing raw values of
\* the column (where the column has any), and the imputation alters no
\* non-missing value.
C7_MedianInCleanTable ==
    Returned =>
        \A c \in Range(numeric_cols) : \A i \in Rows(Raw) :
            /\ (isna(Raw[c][i]) /\ Present(Raw[c]) # {}) =>
                  Clean[c][i] = <<MedianOf(Raw[c])>>
            /\ ~isna(Raw[c][i]) => fill_missing(Raw)[c][i] = Raw[c][i]

\* C7 amended: a missing cell of a numeric column with a raw value is filled
\* with the median of the raw values and the returned table holds what the
\* later steps make of it (whole part toward zero for the three counters,
\* range correction for GPA and credits_remaining), as it does for a cell
\* that was not missing; a column without any raw value stays missing, and
\* the call raises exactly when that column is one of the three counters.
C7_MedianThenLaterSteps ==
    /\ Returned =>
          \A c \in Range(numeric_cols) : \A i \in Rows(Raw) :
              Clean[c][i] =
                  IF ~isna(Raw[c][i]) THEN <<LaterSteps(c, Value(Raw[c][i]))>>
                  ELSE IF Present(Raw[c]) # {} THEN <<LaterSteps(c, MedianOf(Raw[c]))>>
                  ELSE NA
    /\ processed_at # NA =>
          (pc = "raised" <=>
              \E c \in Counters : Rows(Raw) # {} /\ Present(Raw[c]) = {})
    /\ pc = "raised" => ~Returned

\* A missing cell of a column whose two middle raw values differ.
C7_Witness ==
    /\ Returned
    /\ \E c \in Range(numeric_cols) :
          /\ any_isna(Raw[c])
          /\ Cardinality(Present(Raw[c])) = 2
          /\ Cardinality({Value(Raw[c][i]) : i \in Present(Raw[c])}) = 2

\* C8: in a returned table no cell of a designated categorical column is
\* missing: a missing raw cell holds 'Unknown', any other is unchanged.
C8_UnknownFilled ==
    Returned =>
        \A c \in Range(categorical_cols) : \A i \in Rows(Raw) :
            /\ ~isna(Clean[c][i])
            /\ Clean[c][i] = IF isna(Raw[c][i]) THEN <<"Unknown">> ELSE Raw[c][i]

C8_Witness ==
    /\ Returned
    /\ \E c \in Range(categorical_cols) :
          /\ \E i \in Rows(Raw) : isna(Raw[c][i])
          /\ \E i \in Rows(Raw) : ~isna(Raw[c][i]) /\ Value(Raw[c][i]) # "Unknown"

\* C9: with d the days from date_of_birth to the time the cleaner read, age
\* is the integer k with k*365 <= d < (k+1)*365, and with e the days from
\* enrollment_date, years_enrolled is e/365 exactly; both are fixed by the
\* date and the time alone (and are missing for a missing date).
C9_AgeAndYears ==
    Returned =>
        \A i \in Rows(Raw) :
            LET now == Value(processed_at)
                born == Raw["date_of_birth"][i]
                enrolled == Raw["enrollment_date"][i]
                age == Clean["age"][i]
                years == Clean["years_enrolled"][i]
            IN /\ isna(born) <=> isna(age)
               /\ ~isna(born) =>
                     /\ Value(age) * 365 <= now - Value(born)
                     /\ now - Value(born) < (Value(age) + 1) * 365
               /\ isna(enrolled) <=> isna(years)
               /\ ~isna(enrolled) =>
                     Value(years).num * 365 = (now - Value(enrolled)) * Value(years).den

\* A student born after the processing time, next to one born before it.
C9_Witness ==
    /\ Returned
    /\ \E i \in Rows(Raw) : gt(Raw["date_of_birth"][i], Value(processed_at))
    /\ \E i \in Rows(Raw) : lt(Raw["date_of_birth"][i], Value(processed_at) - 365)
    /\ \E i \in Rows(Raw) : lt(Clean["age"][i], 0)

Validated == IF target = "raw" THEN Raw ELSE Clean

\* The nine conditions in their order, each with the count of its rows.
Conditions(t, now) ==
    LET neg(c) == [count |-> Cardinality(Negatives(t, c)),
                   text |-> "valores negativos encontrados en la columna",
                   col |-> c]
        days(i) == now - Value(t["date_of_birth"][i])
        born == Present(t["date_of_birth"])
    IN << neg("current_semester"), neg("Number_of_credits_approved"),
          neg("credits_remaining"), neg("course_load"),
          neg("library_books_borrowed"),
          [count |-> Cardinality({i \in Present(t["GPA"]) :
                                     Value(t["GPA"][i]) < 0 \/ Value(t["GPA"][i]) > 40}),
           text |-> "valores de GPA estan fuera del rango 0-5", col |-> ""],
          [count |-> Cardinality({i \in born : days(i) < 15 * 365}),
           text |-> "estudiantes tienen menos de 15 anos", col |-> ""],
          [count |-> Cardinality({i \in born : days(i) > 80 * 365}),
           text |-> "estudiantes tienen mas de 80 anos", col |-> ""],
          [count |-> Cardinality({i \in Present(t["enrollment_date"]) :
                                     Value(t["enrollment_date"][i]) > now}),
           text |-> "fechas de matricula estan en el futuro", col |-> ""] >>

\* C10: the list validate_data returned holds, in the fixed order, exactly
\* the conditions that hold of the table, each once and with the count of
\* its rows; it is empty exactly when none holds and has at most 9 entries.
C10_OneMessagePerCondition ==
    pc = "validated" =>
        LET all == Conditions(Validated, Value(validated_at))
        IN /\ problems = SelectSeq(all, LAMBDA m : m.count > 0)
           /\ Len(problems) <= 9
           /\ problems = <<>> <=> \A k \in DOMAIN all : all[k].count = 0

\* All nine conditions hold at once, one of them of two rows.
C10_Witness ==
    /\ pc = "validated"
    /\ Len(problems) = 9
    /\ \E j \in DOMAIN problems : problems[j].count >= 2

\* The messages of the last validation about the GPA range and about
\* negative values of credits_remaining.
GpaMessages ==
    {j \in DOMAIN problems :
        problems[j].text = "valores de GPA estan fuera del rango 0-5"}

CreditsRemainingMessages ==
    {j \in DOMAIN problems :
        /\ problems[j].text = "valores negativos encontrados en la columna"
        /\ problems[j].col = "credits_remaining"}

GpaOutOfRange(t) ==
    {i \in Present(t["GPA"]) : Value(t["GPA"][i]) < 0 \/ Value(t["GPA"][i]) > 40}

\* C11: validate_data on a table preprocess_data returned reports no GPA
\* out of range and no negative credits_remaining, whatever the raw table
\* held; validate_data on the raw table reports each of the two exactly
\* when the raw table has such a value, with the number of its rows.
C11_CleaningRemovesRangeProblems ==
    pc = "validated" =>
        /\ target = "processed" =>
               GpaMessages = {} /\ CreditsRemainingMessages = {}
        /\ target = "raw" =>
               /\ GpaMessages # {} <=> GpaOutOfRange(Raw) # {}
               /\ CreditsRemainingMessages # {}
                      <=> Negatives(Raw, "credits_remaining") # {}
               /\ \A j \in GpaMessages :
                      problems[j].count = Cardinality(GpaOutOfRange(Raw))
               /\ \A j \in CreditsRemainingMessages :
                      problems[j].count
                          = Cardinality(Negatives(Raw, "credits_remaining"))

\* The cleaned table of a raw table with a GPA above 5, a GPA below 0 and a
\* negative credits_remaining was validated.
C11_Witness ==
    /\ pc = "validated"
    /\ target = "processed"
    /\ \E i \in Rows(Raw) : gt(Raw["GPA"][i], 40)
    /\ \E i \in Rows(Raw) : lt(Raw["GPA"][i], 0)
    /\ Negatives(Raw, "credits_remaining") # {}

(***************************************************************************)
(* Properties of the aggregations.                                         *)
(***************************************************************************)
Called(fn) == pc = "analysed" /\ call.fn = fn

Out == result.value[1]

\* The sum of a field over the first n rows of a result.
RECURSIVE Total(_, _, _)
Total(rows, field, n) ==
    IF n = 0 THEN 0 ELSE rows[n][field] + Total(rows, field, n - 1)

\* The distinct values of a column and the rows holding one of them.
Keys(t, by) == {Value(t[by][i]) : i \in Present(t[by])}

Members(t, by, k) == {i \in Rows(t) : t[by][i] = <<k>>}

LabelsOf(rows) == {rows[p].key : p \in DOMAIN rows}

\* C12: the counts get_value_counts returns sum to the number of rows of
\* the table, also for a column with missing values.
C12_CountsSumToRows ==
    (Called("get_value_counts") /\ result.raised = "none") =>
        Total(Out, "count", Len(Out)) = Cardinality(Rows(Clean))

\* C13: get_value_counts returns one entry for each distinct value of the
\* column, with the number of rows holding that value, and the entries are
\* in the order of non-increasing count.
C13_EntryPerValue ==
    (Called("get_value_counts") /\ result.raised = "none") =>
        /\ LabelsOf(Out) = Keys(Clean, call.column)
        /\ Len(Out) = Cardinality(Keys(Clean, call.column))
        /\ \A p \in DOMAIN Out :
              Out[p].count = Cardinality(Members(Clean, call.column, Out[p].key))
        /\ \A p, q \in DOMAIN Out : p < q => Out[p].count >= Out[q].count

\* Two values, and the one of the first row of the table is the rarer.
C13_Witness ==
    /\ Called("get_value_counts")
    /\ result.raised = "none"
    /\ Len(Out) = 2
    /\ Out[1].count > Out[2].count
    /\ Clean[call.column][1] = <<Out[2].key>>

\* C14: a call of get_value_counts or analyze_scholarship_distribution with
\* a column the table does not have raises ValueError and returns nothing,
\* and leaves the tables as they were; with a column of the table it does
\* not raise.
C14_AbsentColumnRaises ==
    [][(/\ pc' = "analysed"
        /\ call'.fn \in {"get_value_counts", "analyze_scholarship_distribution"})
       => /\ heap' = heap
          /\ IF call'.column \in DOMAIN heap[processed_df[1]]
             THEN result'.raised = "none" /\ result'.value # NA
             ELSE result'.raised = "ValueError" /\ result'.value = NA]_vars

\* analyze_scholarship_distribution was called on a table with rows, with
\* a column the table does not have.
C14_Witness ==
    /\ Called("analyze_scholarship_distribution")
    /\ call.column \notin DOMAIN Clean
    /\ Rows(Clean) # {}
    /\ result.raised = "ValueError"

\* Twice the median of the non-missing cells of a column among rows.
Masked(col, rows) == [i \in DOMAIN col |-> IF i \in rows THEN col[i] ELSE NA]

TwiceMedian(col, rows) ==
    LET q == Sorted(Masked(col, rows))
        n == Len(q)
    IN q[(n + 1) \div 2] + q[(n + 2) \div 2]

\* C15: a result of get_descriptive_statistics for a table with rows that
\* is not empty has, next
\* to the rows count, mean, std, min, 25%, 50%, 75% and max, a row 'median'
\* holding the median of each column.
C15_MedianRow ==
    (Called("get_descriptive_statistics") /\ Rows(Clean) # {}
                                          /\ Out.index # <<>>) =>
        /\ Range(describe_index) \subseteq Range(Out.index)
        /\ "median" \in Range(Out.index)
        /\ \A c \in Range(Out.columns) :
              Present(Clean[c]) # {} =>
                  /\ Out.at["median"][c] # NA
                  /\ 2 * Value(Out.at["median"][c]).num
                        = Value(Out.at["median"][c]).den
                             * TwiceMedian(Clean[c], Rows(Clean))

\* The rows among rows that have a value in the column.
Valued(col, rows) == {i \in rows : ~isna(col[i])}

RECURSIVE SumOf(_, _)
SumOf(col, rows) ==
    IF rows = {} THEN 0
    ELSE LET i == CHOOSE j \in rows : TRUE
         IN Value(col[i]) + SumOf(col, rows \ {i})

\* cell holds the mean, the median, the least, the greatest of the values
\* the column has among rows; it is missing when there is no such value.
IsMean(cell, col, rows) ==
    IF Valued(col, rows) = {} THEN cell = NA
    ELSE /\ cell # NA
         /\ Value(cell).den > 0
         /\ Value(cell).num * Cardinality(Valued(col, rows))
               = Value(cell).den * SumOf(col, Valued(col, rows))

IsMedian(cell, col, rows) ==
    IF Valued(col, rows) = {} THEN cell = NA
    ELSE /\ cell # NA
         /\ Value(cell).den > 0
         /\ 2 * Value(cell).num = Value(cell).den * TwiceMedian(col, rows)

IsMin(cell, col, rows) ==
    IF Valued(col, rows) = {} THEN cell = NA
    ELSE /\ \E i \in Valued(col, rows) : col[i] = cell
         /\ \A i \in Valued(col, rows) : Value(col[i]) >= Value(cell)

IsMax(cell, col, rows) ==
    IF Valued(col, rows) = {} THEN cell = NA
    ELSE /\ \E i \in Valued(col, rows) : col[i] = cell
         /\ \A i \in Valued(col, rows) : Value(col[i]) <= Value(cell)

\* The field, a fraction, does not increase along the rows; rows without
\* one come last.
NonIncreasing(rows, field) ==
    \A p, q \in DOMAIN rows :
        p < q =>
            /\ rows[p][field] = NA => rows[q][field] = NA
            /\ (rows[p][field] # NA /\ rows[q][field] # NA) =>
                  Value(rows[q][field]).num * Value(rows[p][field]).den
                     <= Value(rows[p][field]).num * Value(rows[q][field]).den

TiedOn(rows, field, p, q) ==
    /\ rows[p][field] # NA
    /\ rows[q][field] # NA
    /\ Value(rows[q][field]).num * Value(rows[p][field]).den
          = Value(rows[p][field]).num * Value(rows[q][field]).den

\* One row for each program of the table, with the mean, median, minimum
\* and maximum of the program's GPA values and their number, by
\* non-increasing mean.
GpaRowPerProgram ==
    /\ LabelsOf(Out) = Keys(Clean, "program")
    /\ Len(Out) = Cardinality(Keys(Clean, "program"))
    /\ \A p \in DOMAIN Out :
          LET rows == Members(Clean, "program", Out[p].key)
          IN /\ IsMean(Out[p].promedio, Clean["GPA"], rows)
             /\ IsMedian(Out[p].mediana, Clean["GPA"], rows)
             /\ IsMin(Out[p].minimo, Clean["GPA"], rows)
             /\ IsMax(Out[p].maximo, Clean["GPA"], rows)
             /\ Out[p].count = Cardinality(Valued(Clean["GPA"], rows))
    /\ NonIncreasing(Out, "promedio")

\* C16 as stated: analyze_gpa_by_program returns one row for each program
\* of the table, with the mean, median, minimum, maximum and count of the
\* program's GPA values, by non-increasing mean, and the counts sum to the
\* number of rows with a program.
C16_CountsSumToProgramRows ==
    Called("analyze_gpa_by_program") =>
        /\ GpaRowPerProgram
        /\ Total(Out, "count", Len(Out)) = Cardinality(Present(Clean["program"]))

\* The permutations of the rows of a table, and the table with its rows
\* permuted.
RowOrders(t) ==
    {f \in [Rows(t) -> Rows(t)] : \A i, j \in Rows(t) : f[i] = f[j] => i = j}

Permuted(t, f) == [c \in DOMAIN t |-> [i \in DOMAIN t[c] |-> t[c][f[i]]]]

\* C17: analyze_gpa_by_program returns the same rows in the same order for
\* the table and for the table with its rows in any other order (the sort
\* of one build treating ties in one way), also when programs have the
\* same mean GPA.
C17_RowOrderIrrelevant ==
    Called("analyze_gpa_by_program") =>
        \A f \in RowOrders(Clean) :
            analyze_gpa_by_program(Permuted(Clean, f), call.ties) = result

\* Two programs with the same mean GPA, the second of the result in an
\* earlier row of the table than the first.
C17_Witness ==
    /\ Called("analyze_gpa_by_program")
    /\ \E p, q \in DOMAIN Out :
          /\ p < q
          /\ TiedOn(Out, "promedio", p, q)
          /\ \E i \in Members(Clean, "program", Out[q].key) :
                \A j \in Members(Clean, "program", Out[p].key) : i < j

Min(a, b) == IF a < b THEN a ELSE b

\* C18: get_top_programs_by_gpa(df, N) returns min(N, number of programs)
\* rows: the programs and the order of the first N rows of
\* analyze_gpa_by_program(df), by non-increasing mean GPA and no program
\* left out with a higher mean than one returned, each with its mean GPA
\* and the number of its rows.
C18_TopPrograms ==
    Called("get_top_programs_by_gpa") =>
        LET full == analyze_gpa_by_program(Clean, call.ties).value[1]
            mean(k) == agg_mean(cells(Clean["GPA"], Members(Clean, "program", k)))
        IN /\ Len(Out) = Min(call.top_n, Cardinality(Keys(Clean, "program")))
           /\ \A p \in DOMAIN Out :
                 /\ Out[p].key = full[p].key
                 /\ IsMean(Out[p].promedio_gpa, Clean["GPA"],
                           Members(Clean, "program", Out[p].key))
                 /\ Out[p].total_estudiantes
                       = Cardinality(Members(Clean, "program", Out[p].key))
           /\ NonIncreasing(Out, "promedio_gpa")
           /\ \A k \in Keys(Clean, "program") \ LabelsOf(Out) :
                 \A p \in DOMAIN Out :
                     (mean(k) # NA /\ Out[p].promedio_gpa # NA) =>
                         ~frac_lt(Value(Out[p].promedio_gpa), Value(mean(k)))

\* C19: analyze_scholarship_distribution returns one row for each value g
\* of the grouping column, with the number of rows holding g, the number
\* of those with a scholarship and 100 times their ratio; the second lies
\* between 0 and the first, the percentage between 0 and 100, and the rows
\* are in the order of non-increasing percentage.
C19_ScholarshipShares ==
    (Called("analyze_scholarship_distribution") /\ result.raised = "none") =>
        /\ LabelsOf(Out) = Keys(Clean, call.column)
        /\ Len(Out) = Cardinality(Keys(Clean, call.column))
        /\ \A p \in DOMAIN Out :
              LET rows == Members(Clean, call.column, Out[p].key)
                  beca == {i \in rows : Clean["scholarship"][i] = <<TRUE>>}
                  pct == Out[p].porcentaje_con_beca
              IN /\ Out[p].total_estudiantes = Cardinality(rows)
                 /\ Out[p].estudiantes_con_beca = Cardinality(beca)
                 /\ 0 <= Out[p].estudiantes_con_beca
                 /\ Out[p].estudiantes_con_beca <= Out[p].total_estudiantes
                 /\ pct # NA
                 /\ Value(pct).den > 0
                 /\ Value(pct).num * Cardinality(rows)
                       = 100 * Cardinality(beca) * Value(pct).den
                 /\ 0 <= Value(pct).num
                 /\ Value(pct).num <= 100 * Value(pct).den
        /\ NonIncreasing(Out, "porcentaje_con_beca")

\* Two groups, the one of the first row of the table with the lower share,
\* a share that is neither 0 nor 100.
C19_Witness ==
    /\ Called("analyze_scholarship_distribution")
    /\ result.raised = "none"
    /\ Len(Out) = 2
    /\ ~TiedOn(Out, "porcentaje_con_beca", 1, 2)
    /\ Clean[call.column][1] = <<Out[2].key>>
    /\ 0 < Out[2].estudiantes_con_beca
    /\ Out[2].estudiantes_con_beca < Out[2].total_estudiantes

\* C20: analyze_credits_by_semester returns one row for each value of
\* current_semester, in the order of strictly increasing semester, with
\* the mean, count, median, maximum and minimum of the
\* Number_of_credits_approved of the semester's rows; the counts sum to
\* the number of rows of the table, and for a semester with one student
\* the count is 1 and the four statistics are that student's credits.
C20_CreditsBySemester ==
    Called("analyze_credits_by_semester") =>
        LET credits == Clean["Number_of_credits_approved"]
        IN /\ LabelsOf(Out) = Keys(Clean, "current_semester")
           /\ \A p, q \in DOMAIN Out : p < q => Out[p].key < Out[q].key
           /\ \A p \in DOMAIN Out :
                 LET rows == Members(Clean, "current_semester", Out[p].key)
                 IN /\ IsMean(Out[p].promedio_creditos, credits, rows)
                    /\ Out[p].total_estudiantes = Cardinality(rows)
                    /\ IsMedian(Out[p].mediana_creditos, credits, rows)
                    /\ IsMax(Out[p].max_creditos, credits, rows)
                    /\ IsMin(Out[p].min_creditos, credits, rows)
                    /\ \A i \in Rows(Clean) :
                          rows = {i} =>
                              /\ Out[p].total_estudiantes = 1
                              /\ Value(Out[p].promedio_creditos).num
                                    = Value(credits[i]) * Value(Out[p].promedio_creditos).den
                              /\ Value(Out[p].mediana_creditos).num
                                    = Value(credits[i]) * Value(Out[p].mediana_creditos).den
                              /\ Out[p].max_creditos = credits[i]
                              /\ Out[p].min_creditos = credits[i]
           /\ Total(Out, "total_estudiantes", Len(Out)) = Cardinality(Rows(Clean))

\* A semester with one student after a semester with two students of
\* different credits, the table's first row being of the later semester.
C20_Witness ==
    /\ Called("analyze_credits_by_semester")
    /\ Len(Out) = 2
    /\ Out[1].total_estudiantes = 2
    /\ Out[1].min_creditos # Out[1].max_creditos
    /\ Out[2].total_estudiantes = 1
    /\ Clean["current_semester"][1] = <<Out[2].key>>

\* The sum of the numerators of the first n columns of a row of shares.
RECURSIVE ShareSum(_, _)
ShareSum(row, n) ==
    IF n = 0 THEN 0 ELSE row.at[row.columns[n]].num + ShareSum(row, n - 1)

\* C21: in the result of analyze_student_status_by_academic_standing every
\* row of an academic standing holds, per student status, a percentage
\* between 0 and 100, the percentages of the row sum to 100, each is the
\* share of the rows of that standing with that status, and total_count is
\* the number of rows of the table with that standing.
C21_StatusShares ==
    Called("analyze_student_status_by_academic_standing") =>
        /\ result.raised = "none"
        /\ LabelsOf(Out) = Keys(Clean, "academic_standing")
        /\ \A p \in DOMAIN Out :
              LET row == Out[p]
                  members == Members(Clean, "academic_standing", row.key)
                  n == Cardinality(members)
              IN /\ Range(row.columns) = Keys(Clean, "student_status")
                 /\ \A c \in Range(row.columns) :
                       /\ row.at[c].den = n
                       /\ row.at[c].num >= 0
                       /\ row.at[c].num <= 100 * n
                       /\ row.at[c].num =
                             100 * Cardinality({i \in members :
                                       Clean["student_status"][i] = <<c>>})
                 /\ ShareSum(row, Len(row.columns)) = 100 * n
                 /\ row.total_count = <<n>>

\* Two standings, one of them with two students of different status.
C21_Witness ==
    /\ Called("analyze_student_status_by_academic_standing")
    /\ result.raised = "none"
    /\ Len(Out) >= 2
    /\ \E p \in DOMAIN Out : \E c \in Range(Out[p].columns) :
          /\ Out[p].at[c].num > 0
          /\ Out[p].at[c].num < 100 * Out[p].at[c].den

\* The columns of the cleaned table that qualify for a call with the
\* column list of the call: those of the list that exist and are numeric,
\* every int or float column when no list is given.
Numeric ==
    (Range(numeric_cols) \cup {"age", "years_enrolled"}) \cap DOMAIN Clean

Qualifying ==
    IF call.columns = NA THEN Numeric
    ELSE Range(call.columns[1]) \cap (Numeric \cup {"scholarship"})

\* A correlation of 1: the codeviation equals both sums of squares.
IsOne(cell) ==
    /\ cell # NA
    /\ cell[1].covxy > 0
    /\ cell[1].covxy = cell[1].ssqdx
    /\ cell[1].covxy = cell[1].ssqdy

\* The same correlation with the roles of the two columns exchanged.
Mirrored(cell, other) ==
    \/ cell = NA /\ other = NA
    \/ /\ cell # NA /\ other # NA
       /\ cell[1].covxy = other[1].covxy
       /\ cell[1].ssqdx = other[1].ssqdy
       /\ cell[1].ssqdy = other[1].ssqdx

\* C22: get_correlation_matrix returns a square matrix indexed by exactly
\* the qualifying columns, symmetric and with 1 on every diagonal entry,
\* also for a column whose values are all equal; the empty frame when no
\* column qualifies.
C22_SymmetricUnitDiagonal ==
    Called("get_correlation_matrix") /\ Cardinality(Rows(Clean)) >= 2 =>
        /\ result.raised = "none"
        /\ IF Qualifying = {} THEN Out = empty_frame
           ELSE /\ Out.index = Out.columns
                /\ Range(Out.index) = Qualifying
                /\ Len(Out.index) = Cardinality(Qualifying)
                /\ \A a, b \in Qualifying : Mirrored(Out.at[a][b], Out.at[b][a])
                /\ \A a \in Qualifying : IsOne(Out.at[a][a])

\* C23: validate_data and every aggregation leave the table they are given
\* as it was, rows, columns and cells, whether the call returns or raises:
\* no table object of the heap changes in such a step.
C23_InputUnchanged ==
    [][pc = "processed" /\ pc' \in {"validated", "analysed", "analysed without"}
          => heap' = heap]_vars

\* An aggregation that builds its result in steps has returned, and one
\* has raised on a table with rows.
C23_Witness ==
    /\ pc = "analysed"
    /\ Rows(Clean) # {}
    /\ \/ call.fn = "analyze_student_status_by_academic_standing"
       \/ result.raised # "none"

(***************************************************************************)
(* Properties of the run of main.                                          *)
(***************************************************************************)
\* The statements of a run in which nothing fails, by stage.
Aggregations ==
    <<"get_descriptive_statistics", "to_csv", "get_value_counts",
      "get_value_counts", "get_value_counts", "get_correlation_matrix",
      "analyze_gpa_by_program", "analyze_scholarship_distribution",
      "analyze_credits_by_semester">>

Charts ==
    <<"plot_gpa_distribution", "plot_students_per_program",
      "plot_gpa_vs_credits", "plot_scholarship_status",
      "plot_academic_standing_distribution", "plot_gpa_boxplot_by_program",
      "plot_correlation_heatmap">>

Expected ==
    <<"load_university_data", "preprocess_data", "validate_data">>
    \o Aggregations \o Charts
    \o (IF args.report THEN <<"generate_report">> ELSE <<>>)

StageOf(stmt) ==
    CASE stmt = "load_university_data" -> "load"
      [] stmt = "preprocess_data" -> "clean"
      [] stmt = "validate_data" -> "validate"
      [] stmt \in Range(Aggregations) -> "aggregate"
      [] stmt \in Range(Charts) -> "visualize"
      [] stmt = "generate_report" -> "report"

\* The run has ended.
Ended == exit_code # NA

\* C24: the statements main has run are the first ones of the fixed order
\* load, clean, validate, the aggregations, the seven charts, report, each
\* in its stage and at most once; a statement runs only after the one
\* before it has returned; problems found by the validation are printed,
\* and the run ends before the last statement only when a statement failed.
C24_StagesInOrder ==
    /\ Len(executed) <= Len(Expected)
    /\ \A i \in DOMAIN executed :
          /\ executed[i].stmt = Expected[i]
          /\ executed[i].stage = StageOf(Expected[i])
          /\ i < Len(executed) => executed[i].outcome = "ok"
    /\ ~Ended => \A i \in DOMAIN executed : executed[i].outcome = "ok"
    /\ (Ended /\ \A i \in DOMAIN executed : executed[i].outcome = "ok")
          => Len(executed) = Len(Expected)
    /\ (Len(executed) >= 3 /\ executed[3].outcome = "ok" /\ problems # <<>>)
          => \E k \in DOMAIN stdout :
                /\ "problems" \in DOMAIN stdout[k]
                /\ stdout[k].problems = problems

\* A run with the report in which the validation found problems has gone
\* through every stage.
C24_Witness ==
    /\ Ended
    /\ args.report
    /\ problems # <<>>
    /\ Len(executed) = Len(Expected)
    /\ executed[Len(executed)].outcome = "ok"

\* The file a statement of main writes, if it writes one.
Artifact(stmt) ==
    CASE stmt = "to_csv" -> <<"descriptive_statistics.csv">>
      [] stmt = "plot_gpa_distribution" -> <<"gpa_distribution.png">>
      [] stmt = "plot_students_per_program" -> <<"students_per_program.png">>
      [] stmt = "plot_gpa_vs_credits" -> <<"gpa_vs_credits.png">>
      [] stmt = "plot_scholarship_status" -> <<"scholarship_status.png">>
      [] stmt = "plot_academic_standing_distribution" -> <<"academic_standing.png">>
      [] stmt = "plot_gpa_boxplot_by_program" -> <<"gpa_boxplot_by_program.png">>
      [] stmt = "plot_correlation_heatmap" -> <<"correlation_heatmap.png">>
      [] stmt = "generate_report" -> <<"analysis_report.md">>
      [] OTHER -> <<>>

Failed(i) == executed[i].outcome # "ok"

Written == {fs.written[i].path : i \in DOMAIN fs.written}

\* C25: a statement of main that fails is the last one the run executes,
\* the run then ends with exit code 1 and the error printed last; the
\* files written are those of the statements that ran, each statement that
\* returned has left its file, and none is written for a later statement;
\* a run without a failure ends with exit code 0.
C25_FailureEndsRun ==
    /\ \A i \in DOMAIN executed :
          Failed(i) =>
             /\ i = Len(executed)
             /\ exit_code = <<1>>
             /\ stdout[Len(stdout)].line = "Error durante el análisis"
    /\ exit_code = <<1>> => executed # <<>> /\ Failed(Len(executed))
    /\ exit_code = <<0>> =>
          /\ \A i \in DOMAIN executed : ~Failed(i)
          /\ Len(executed) = Len(Expected)
    /\ \A path \in Written :
          \E i \in DOMAIN executed : path = args.output \o Artifact(executed[i].stmt)
    /\ \A i \in DOMAIN executed :
          ~Failed(i) /\ Artifact(executed[i].stmt) # <<>>
             => args.output \o Artifact(executed[i].stmt) \in Written

\* A chart has failed after files were written.
C25_Witness ==
    /\ exit_code = <<1>>
    /\ executed[Len(executed)].stage = "visualize"
    /\ Len(fs.written) >= 2

\* C26: when the input path does not exist, load_university_data raises
\* FileNotFoundError whatever a parse would have given, main ends with
\* exit code 1, no statement after the load runs and no file is written.
C26_MissingInput ==
    fs.csv = NA =>
        /\ Len(executed) <= 1
        /\ \A i \in DOMAIN executed :
              /\ executed[i].stmt = "load_university_data"
              /\ executed[i].outcome = "FileNotFoundError"
              /\ exit_code = <<1>>
        /\ exit_code # <<0>>
        /\ fs.written = <<>>
        /\ analyses = <<>>
        /\ processed_df = NA
        /\ problems = <<>>
        /\ call.fn = "none"

\* The run on a missing input has ended.
C26_Witness ==
    /\ fs.csv = NA
    /\ Ended
    /\ executed # <<>>

\* A relative path with its ".." components resolved: each cancels the
\* component before it.
RECURSIVE normpath(_)
normpath(path) ==
    IF path = <<>> THEN <<>>
    ELSE LET front == normpath(SubSeq(path, 1, Len(path) - 1))
             last == path[Len(path)]
         IN IF last = ".." /\ front # <<>> /\ front[Len(front)] # ".."
            THEN SubSeq(front, 1, Len(front) - 1)
            ELSE Append(front, last)

\* The places of the complete reports among the files written.
Reports ==
    {i \in DOMAIN fs.written :
        /\ fs.written[i].path = args.output \o <<"analysis_report.md">>
        /\ fs.written[i].content.complete}

\* A reference of the report, resolved from the directory of the report.
Resolved(i, reference) == normpath(dirname(fs.written[i].path) \o reference)

\* C30: a report is written only when the report flag is set and after all
\* seven chart files; it has one section per chart, in the order of the
\* charts, each with the text of its chart, then the conclusions; and each
\* image reference, resolved from the directory of the report, is the path
\* of the chart file written in the output directory.
C30_ReportOfCharts ==
    \A i \in Reports :
        LET sections == fs.written[i].content.sections
        IN /\ args.report
           /\ \A k \in DOMAIN Charts :
                 \E j \in 1..(i - 1) :
                    fs.written[j].path = args.output \o Artifact(Charts[k])
           /\ Len(sections) = Len(Charts)
           /\ \A k \in DOMAIN sections :
                 /\ sections[k].title = analyses[k].title
                 /\ sections[k].text = [analysis |-> Charts[k]]
                 /\ Resolved(i, sections[k].image)
                       = args.output \o Artifact(Charts[k])
           /\ Len(fs.written[i].content.conclusions) = 4

\* The grouping column of a grouped analysis.
GroupingColumn(fn) ==
    IF fn = "analyze_credits_by_semester" THEN "current_semester" ELSE "program"

\* C27: an aggregation asked for a column the table does not have raises
\* ValueError: get_descriptive_statistics and get_correlation_matrix given
\* a list with such a column, get_value_counts and
\* analyze_scholarship_distribution given such a name, and the grouped
\* analyses on a table without their grouping column.
C27_AbsentColumnRaises ==
    /\ (Called("get_descriptive_statistics") \/ Called("get_correlation_matrix"))
          => (call.columns # NA /\ Range(call.columns[1]) \ DOMAIN Clean # {}
                 => result.raised = "ValueError")
    /\ (Called("get_value_counts") \/ Called("analyze_scholarship_distribution"))
          => (call.column \notin DOMAIN Clean => result.raised = "ValueError")
    /\ pc = "analysed without"
          => (call.without = GroupingColumn(call.fn)
                 => result.raised = "ValueError")

\* The value of a cell after the imputation: its raw value, or the median
\* of the raw values of its column.
Imputed(c, i) ==
    IF ~isna(Raw[c][i]) THEN Value(Raw[c][i]) ELSE MedianOf(Raw[c])

\* C28: the casts change no value: in a returned table each cell of GPA,
\* current_semester, Number_of_credits_approved and credits_remaining
\* holds the value it had after the imputation (GPA and credits_remaining
\* as the clamping, which follows the casts, leaves that value), also when
\* the value is a fractional median that filled a counter.
C28_CastsKeepValues ==
    Returned =>
        \A i \in Rows(Raw) :
            /\ \A c \in {"current_semester", "Number_of_credits_approved"} :
                  Clean[c][i] = <<Imputed(c, i)>>
            /\ Clean["credits_remaining"][i] =
                  <<Within(Imputed("credits_remaining", i), 0,
                           Imputed("credits_remaining", i))>>
            /\ Present(Raw["GPA"]) # {} =>
                  Clean["GPA"][i] = <<Within(Imputed("GPA", i), 0, 40)>>

\* The counts of the messages of the last validation with a given text: a
\* condition without a message counts 0 rows.
Counted(text) ==
    IF \E j \in DOMAIN problems : problems[j].text = text
    THEN {problems[j].count : j \in {k \in DOMAIN problems : problems[k].text = text}}
    ELSE {0}

\* The rows of the cleaned table with a derived age below, or above, a bound.
Younger(years) == {i \in Present(Clean["age"]) : Value(Clean["age"][i]) < years}

Older(years) == {i \in Present(Clean["age"]) : Value(Clean["age"][i]) > years}

\* C29: when the cleaned table is validated at the time it was cleaned,
\* the message about students under 15 counts the rows whose derived age is
\* below 15 and the message about students over 80 the rows whose derived
\* age is above 80; each is absent exactly when there is no such row.
C29_AgeMessagesMatchAge ==
    (pc = "validated" /\ target = "processed" /\ validated_at = processed_at) =>
        /\ Counted("estudiantes tienen menos de 15 anos")
              = {Cardinality(Younger(15))}
        /\ Counted("estudiantes tienen mas de 80 anos")
              = {Cardinality(Older(80))}

====
